---- MODULE Spec2Model ----
(***************************************************************************)
(* Model of the AI completion core of p-n-ai/pai-bot:                      *)
(*   - ai.Router           (internal/ai/router.go)                         *)
(*   - agent.MemoryStore   (internal/agent store, in-memory backend)       *)
(*   - agent.Engine        (internal/agent engine with compaction)         *)
(*   - agent.EventLogger   (internal/agent/events.go)                      *)
(*   - ai.InMemoryBudget   (internal/ai/budget.go)                         *)
(* The specifications share the variables:                                 *)
(*   SpecRouter : Register / Complete / HasProvider of one Router          *)
(*   SpecSeq    : one Engine goroutine, turns strictly one after another   *)
(*   SpecFaulty : one Engine goroutine on a Store that may fail            *)
(*   Spec       : two Engine goroutines (go handler(msg) in pollLoop)      *)
(*   SpecEvents : one Engine goroutine with a recording EventLogger        *)
(*   SpecBudget : SetBudget / Check / Record / Usage of one InMemoryBudget *)
(*   SpecStore  : the ConversationStore methods called directly            *)
(***************************************************************************)
EXTENDS Integers, Sequences, FiniteSets, TLC

VARIABLES
    providers,   \* Router.providers : name -> provider (NoProv = absent key)
    fallback,    \* Router.fallback  : ordered fallback chain of names
    nreg,        \* history: number of Register calls so far
    rcall,       \* the Router.Complete call in flight (holds mu.RLock)
    rlast,       \* the last Router.Complete call returned since the last Register
    convs,       \* MemoryStore.conversations : id -> *Conversation
    cfg,         \* Engine thresholds, as NewEngine stored them
    procs,       \* the goroutines that run Engine.ProcessMessage
    eng,         \* per goroutine: position in ProcessMessage and its locals
    inbound,     \* the messages the chat adapter may deliver
    sums,        \* the contents a provider may return for a summarization
    faults,      \* the Store methods that may return an error
    cleared,     \* history: users whose last completed message was /start or /clear
    budget,      \* inbound messages still to be delivered
    crashed,     \* a goroutine panicked (the process is gone)
    logger,      \* Engine.eventLogger, as NewEngine stored it
    tasks,       \* the goroutines started by logEventAsync, in start order
    events,      \* MemoryEventLogger.events
    budgets,     \* InMemoryBudget.budgets : key -> budget limit
    usage,       \* InMemoryBudget.usage   : key -> tokens used
    recorded,    \* history: key -> sum of the values Record accepted
    ncalls,      \* history: number of InMemoryBudget calls so far
    blast,       \* the last InMemoryBudget call and what it returned
    nscalls,     \* history: number of direct Store calls so far
    slast,       \* the last direct Store call and what it returned
    request,     \* CompletionRequest.Messages handed to a provider
    payload,     \* the vendor request body the last Complete call built
    response,    \* what the last Complete call returned
    chan,        \* the channel StreamComplete made
    producer,    \* the StreamComplete call: vendor and position
    consumer,    \* the caller of StreamComplete and the chunks it received
    splitText,   \* the text handed to SplitMessage
    splitMax,    \* the maxLen handed to SplitMessage
    splitParts   \* what the SplitMessage call returned

rvars == <<providers, fallback, nreg, rcall, rlast>>

lvars == <<logger, tasks, events>>

evars == <<convs, cfg, procs, eng, inbound, sums, faults, cleared, budget,
          crashed, lvars>>

bvars == <<budgets, usage, recorded, ncalls, blast>>

\* The components that neither the Router nor the Engine touches.
svars == <<nscalls, slast>>

pvars == <<request, payload, response, chan, producer, consumer>>

tvars == <<splitText, splitMax, splitParts>>

ovars == <<bvars, svars, pvars, tvars>>

vars == <<providers, fallback, nreg, rcall, rlast,
          convs, cfg, procs, eng, inbound, sums, faults, cleared, budget,
          crashed, logger, tasks, events,
          budgets, usage, recorded, ncalls, blast, nscalls, slast,
          request, payload, response, chan, producer, consumer,
          splitText, splitMax, splitParts>>

-----------------------------------------------------------------------------
(* Bounds of the model. *)

MaxReg == 3        \* Register calls explored
MaxMsgs == 3       \* inbound messages delivered to two goroutines
MaxMsgsSeq == 3    \* inbound messages delivered to one goroutine
MaxMsgsLong == 5   \* inbound messages of the one-user long session
MaxMsgsEv == 2     \* inbound messages of the session with event logging
MaxMsgsConc == 2   \* inbound messages of the short two-goroutine session
MaxCalls == 4      \* InMemoryBudget calls explored
MaxStoreCalls == 4 \* direct Store calls explored
MaxReq == 3        \* messages of a request handed to a vendor adapter
MaxReqStream == 1  \* messages of a request handed to StreamComplete
MaxText == 5       \* bytes of a text handed to SplitMessage
MaxSplitLen == 3   \* the maxLen handed to SplitMessage

Names == {"openai", "ollama"}
ProvIds == {1, 2}  \* provider objects handed to Register
NoProv == 0

TaskTeaching == 0
TaskGrading == 1
TaskNudge == 2
TaskAnalysis == 3
Tasks == {TaskTeaching, TaskGrading, TaskNudge, TaskAnalysis}

-----------------------------------------------------------------------------
(* ai.Router *)

NoResp == [from |-> NoProv, task |-> TaskTeaching]

IdleCall == [pc |-> "idle", task |-> TaskTeaching, outc |-> <<>>, rng |-> <<>>,
             i |-> 0, invoked |-> <<>>, status |-> "none", resp |-> NoResp]

NoCall == [task |-> TaskTeaching, outc |-> <<>>, invoked |-> <<>>,
           status |-> "none", resp |-> NoResp]

Reverse(s) == [k \in 1..Len(s) |-> s[Len(s) + 1 - k]]

\* NewRouter: empty map, nil fallback slice.
NewRouterProviders == [n \in Names |-> NoProv]

\* Register, line 28: r.providers[name] = provider
RegisterProviders(provs, name, p) == [provs EXCEPT ![name] = p]

\* Register, line 29: r.fallback = append(r.fallback, name)
RegisterFallback(fb, name) == Append(fb, name)

\* A variant of the iteration order that picks the chain by task type.
CompleteOrderByTask(fb, task) ==
    IF task \in {TaskGrading, TaskAnalysis} THEN Reverse(fb) ELSE fb

\* Complete, line 38: for _, name := range r.fallback  (req.Task is not read)
CompleteOrder(fb, task) == fb

\* A variant of the exhausted-chain return that reports success.
CompleteExhaustedNilErr(c) ==
    [c EXCEPT !.pc = "done", !.status = "ok", !.resp = NoResp]

\* Complete, line 59: return CompletionResponse{}, fmt.Errorf(...)
CompleteExhausted(c) ==
    [c EXCEPT !.pc = "done", !.status = "err", !.resp = NoResp]

\* A variant of the loop body that keeps iterating after a success.
CompleteIterNoReturn(c, p, ok) ==
    LET inv == Append(c.invoked, [name |-> c.rng[c.i], prov |-> p]) IN
    IF ok
    THEN [c EXCEPT !.invoked = inv, !.i = c.i + 1, !.status = "ok",
                   !.resp = [from |-> p, task |-> c.task],
                   !.pc = IF c.i = Len(c.rng) THEN "done" ELSE "loop"]
    ELSE [c EXCEPT !.invoked = inv, !.i = c.i + 1,
                   !.pc = IF c.i = Len(c.rng) /\ c.status = "ok"
                          THEN "done" ELSE "loop"]

\* Complete, lines 39-56: one iteration of the loop on provider p of
\* r.providers[name]; ok is the outcome of provider.Complete(ctx, req).
CompleteIter(c, p, ok) ==
    LET inv == Append(c.invoked, [name |-> c.rng[c.i], prov |-> p]) IN
    IF ok
    THEN [c EXCEPT !.invoked = inv, !.pc = "done", !.status = "ok",
                   !.resp = [from |-> p, task |-> c.task]]
    ELSE [c EXCEPT !.invoked = inv, !.i = c.i + 1]

\* A variant of HasProvider with an off-by-one comparison.
HasProviderOffByOne(provs) == Cardinality({n \in Names : provs[n] # NoProv}) > 1

\* HasProvider, line 66: len(r.providers) > 0
HasProvider(provs) == Cardinality({n \in Names : provs[n] # NoProv}) > 0

-----------------------------------------------------------------------------
(* agent.MemoryStore: every method runs under s.mu, so each is one step. *)

\* Conversation, as CreateConversation stores it.  History fields:
\*   alone   the user had no active conversation when this one was created
\*   ranges  the slices <<lo, hi>> (messages[lo:hi]) that successful
\*           summarization calls were given, oldest first
\*   pending the last summarization call for this conversation failed
\*   by      for each message of the log, the ProcessMessage invocation
\*           that appended it (see Appended)
\*   covered the positions (1-based) of the messages the stored summary was
\*           produced from, the ones of an incorporated previous summary
\*           included
NewConversation(userID, alone) ==
    [userID |-> userID, messages |-> <<>>, summary |-> "", compactedAt |-> 0,
     ended |-> FALSE, alone |-> alone, ranges |-> <<>>, pending |-> FALSE,
     by |-> <<>>, covered |-> {}]

\* StoredMessage of a user turn (ProcessMessage lines 104-107).
UserMessage(content) ==
    [role |-> "user", content |-> content, model |-> "",
     inputTokens |-> 0, outputTokens |-> 0]

\* A variant of the assistant StoredMessage without the token counts.
AssistantMessageNoTokens(content, resp) ==
    [role |-> "assistant", content |-> content, model |-> resp.model,
     inputTokens |-> 0, outputTokens |-> 0]

\* StoredMessage of an assistant turn (ProcessMessage lines 166-172).
AssistantMessage(content, resp) ==
    [role |-> "assistant", content |-> content, model |-> resp.model,
     inputTokens |-> resp.inputTokens, outputTokens |-> resp.outputTokens]

\* The conversations GetActiveConversation can return for a user: the map
\* iteration order is unspecified, so any entry of this set.
ActiveOf(cs, userID) ==
    {id \in 1..Len(cs) : cs[id].userID = userID /\ ~cs[id].ended}

\* CreateConversation: a fresh id (generateID), the entry is added.
StoreCreate(cs, userID) ==
    Append(cs, NewConversation(userID, ActiveOf(cs, userID) = {}))

\* A variant of AddMessage that overwrites the last message of the log.
StoreAddMessageOverwrite(cs, id, m) ==
    [cs EXCEPT ![id].messages =
        IF @ = <<>> THEN <<m>> ELSE Append(SubSeq(@, 1, Len(@) - 1), m)]

\* The last message of a log.
Last(msgs) == msgs[Len(msgs)]

\* AddMessage: conv.Messages = append(conv.Messages, msg)
StoreAddMessage(cs, id, m) ==
    [cs EXCEPT ![id].messages = Append(@, m)]

\* A variant of SetSummary that drops the summarized messages from the log.
StoreSetSummaryTruncating(cs, id, summary, at) ==
    [cs EXCEPT ![id].summary = summary, ![id].compactedAt = 0,
               ![id].messages = SubSeq(@, at + 1, Len(@))]

\* SetSummary: conv.Summary = summary; conv.CompactedAt = compactedAt
StoreSetSummary(cs, id, summary, at) ==
    [cs EXCEPT ![id].summary = summary, ![id].compactedAt = at]

\* A variant of EndConversation that leaves the conversation active.
StoreEndNoop(cs, id) == cs

\* EndConversation: conv.EndedAt = &now
StoreEnd(cs, id) == [cs EXCEPT ![id].ended = TRUE]

-----------------------------------------------------------------------------
(* agent.Engine *)

defaultCompactThreshold == 20
defaultCompactTokenThreshold == 20000
defaultKeepRecent == 6

\* NewEngine: a zero config value selects the default.
NewEngine(c) ==
    [compactThreshold |->
        IF c.CompactThreshold = 0 THEN defaultCompactThreshold
        ELSE c.CompactThreshold,
     compactTokenThreshold |->
        IF c.CompactTokenThreshold = 0 THEN defaultCompactTokenThreshold
        ELSE c.CompactTokenThreshold,
     keepRecent |->
        IF c.KeepRecent = 0 THEN defaultKeepRecent ELSE c.KeepRecent]

\* The EngineConfig of TestEngine_Compaction (long one-user session).
LongConfig ==
    [CompactThreshold |-> 6, CompactTokenThreshold |-> 0, KeepRecent |-> 2]

\* The EngineConfig values explored with one goroutine: a message threshold
\* and a token threshold that short sessions reach.
SeqConfigs ==
    {[CompactThreshold |-> 2, CompactTokenThreshold |-> 0, KeepRecent |-> 1],
     [CompactThreshold |-> 0, CompactTokenThreshold |-> 3, KeepRecent |-> 1]}

\* The EngineConfig of the sessions with photos and with a failing Store.
PhotoConfig ==
    [CompactThreshold |-> 2, CompactTokenThreshold |-> 0, KeepRecent |-> 1]

\* The EngineConfig explored with two goroutines.
ConcConfigs ==
    {[CompactThreshold |-> 1, CompactTokenThreshold |-> 0, KeepRecent |-> 1]}

Users == {"u1", "u2"}
PlainTexts == {"hi", "what is algebra?"}
CommandTexts == {"/start", "/clear", "/help me"}
Inbound ==
    [userID : Users, text : PlainTexts \cup CommandTexts, replyTo : {""},
     hasImage : {FALSE}, imageDataURL : {""}]

\* Photo updates of one user: with the downloaded image data, and with the
\* download failed (HasImage set, ImageDataURL empty).
ImageInbound ==
    [userID : {"u1"}, text : {""}, replyTo : {""},
     hasImage : {TRUE}, imageDataURL : {"", "data:image/jpeg;base64,AA"}]

\* The messages delivered in the session with photos.
PhotoInbound ==
    ImageInbound \cup
    {m \in Inbound : m.userID = "u1" /\ m.text \in {"hi", "/start"}}

AllInbound == Inbound \cup ImageInbound

\* The messages delivered in the long one-user session, and to two
\* goroutines.
LongInbound == {m \in Inbound : m.userID = "u1" /\ m.text \in {"hi", "/start"}}
ConcInbound == LongInbound

NoMsg == [userID |-> "", text |-> "", replyTo |-> "",
          hasImage |-> FALSE, imageDataURL |-> ""]

\* Contents a provider returns for a teaching and for a summarization call.
TeachResponses == {"x = 5", "\\(x = 5\\)"}
SumResponses == {"summary", ""}

Apology == "Maaf, saya sedang mengalami masalah teknikal. Cuba lagi sebentar."
ImageFailed == "Saya terima gambar anda, tapi gagal memproses fail gambar itu. Cuba hantar semula gambar yang lebih jelas."
Cleared == "Sejarah perbualan telah dikosongkan. Hantar soalan baru untuk mula semula."

\* A variant of the command test that knows /start only.
HasSlashPrefixStartOnly(text) == text = "/start"

\* strings.HasPrefix(msg.Text, "/"), on the texts delivered here.
HasSlashPrefix(text) == text \in CommandTexts

\* strings.Split(msg.Text, " ")[0], on the command texts delivered here.
CmdOf(text) == IF text = "/help me" THEN "/help" ELSE text

\* ProcessMessage, lines 92-98: the text, with the image preamble.
ImageContent(m) ==
    IF m.hasImage
    THEN "[Student attached an image]\nAnalyze the image content first, then answer the student's request.\n\n"
         \o (IF m.text = ""
             THEN "Please analyze the attached image and help me solve it step by step."
             ELSE m.text)
    ELSE m.text

\* ProcessMessage, lines 92-101: the stored user content.
UserContent(m) ==
    IF m.replyTo # ""
    THEN "[Replying to: \"" \o m.replyTo \o "\"]\n\n" \o ImageContent(m)
    ELSE ImageContent(m)

\* estimateTokens: total += len(m.Content) / 4
RECURSIVE EstimateTokens(_)
EstimateTokens(msgs) ==
    IF msgs = <<>> THEN 0
    ELSE (Len(Head(msgs).content) \div 4) + EstimateTokens(Tail(msgs))

\* A variant of the threshold test that needs both thresholds exceeded.
OverThresholdBoth(n, tokens, c) ==
    n > c.compactThreshold /\ tokens > c.compactTokenThreshold

\* maybeCompact, line 236, negated: compaction is considered.
OverThreshold(n, tokens, c) ==
    ~(n <= c.compactThreshold /\ tokens <= c.compactTokenThreshold)

\* A variant of compactUpTo with the sign of keepRecent flipped.
CompactUpToPlus(len, c) == len + c.keepRecent

\* maybeCompact, line 241: compactUpTo := len(conv.Messages) - e.keepRecent
CompactUpTo(len, c) == len - c.keepRecent

\* ai.Message{Role, Content} (ImageURLs empty).
AIMessage(role, content) ==
    [role |-> role, content |-> content, imageURL |-> ""]

\* The ai.Message list of a slice of stored messages, in slice order.
AIMessages(msgs) ==
    [k \in 1..Len(msgs) |-> AIMessage(msgs[k].role, msgs[k].content)]

SummaryPrefix == "Previous conversation summary:\n"
SummaryAck == "Understood, I'll continue based on our previous conversation."

\* A variant of buildContextMessages that sends the whole log after the
\* summary exchange.
BuildContextMessagesWholeLog(conv) ==
    IF conv.summary # ""
    THEN <<AIMessage("user", SummaryPrefix \o conv.summary),
           AIMessage("assistant", SummaryAck)>>
         \o AIMessages(conv.messages)
    ELSE AIMessages(conv.messages)

\* buildContextMessages: the summary exchange and the messages after the
\* compaction point, or the whole log when there is no summary.
BuildContextMessages(conv) ==
    IF conv.summary # ""
    THEN <<AIMessage("user", SummaryPrefix \o conv.summary),
           AIMessage("assistant", SummaryAck)>>
         \o AIMessages(SubSeq(conv.messages, conv.compactedAt + 1,
                              Len(conv.messages)))
    ELSE AIMessages(conv.messages)

\* buildSystemPrompt: the fixed system prompt.
SystemMessage == AIMessage("system", "You are P&AI Bot")

\* ProcessMessage, lines 136-142: the message that carries the image.
ImageMessage(m) ==
    [role |-> "user",
     content |-> "Attached image from the student. Analyze this image directly and answer based on what you see. If unreadable, say exactly what is unclear and how to retake it.",
     imageURL |-> m.imageDataURL]

\* ProcessMessage, lines 130-142: the messages of the TaskTeaching request.
BuildPrompt(conv, m) ==
    <<SystemMessage>> \o BuildContextMessages(conv)
        \o (IF m.imageDataURL # "" THEN <<ImageMessage(m)>> ELSE <<>>)

\* CompletionResponse{} and the CompletionResponse of provider p: each
\* provider reports its own model name and token usage.
EmptyCompletion ==
    [content |-> "", model |-> "", inputTokens |-> 0, outputTokens |-> 0]

ProviderResponse(p, content) ==
    [content |-> content,
     model |-> IF p = 1 THEN "gpt-4o-mini" ELSE "llama3",
     inputTokens |-> IF p = 1 THEN 12 ELSE 9,
     outputTokens |-> IF p = 1 THEN 3 ELSE 2]

\* normalizeEquationFormatting, on the contents returned here.
NormalizeEq(content) ==
    IF content = "\\(x = 5\\)" THEN "x = 5" ELSE content

\* Router.Complete run to its return on the Router's current state.
RECURSIVE RunComplete(_)
RunComplete(c) ==
    IF c.pc = "done" THEN c
    ELSE RunComplete(IF c.i > Len(c.rng) THEN CompleteExhausted(c)
                     ELSE CompleteIter(c, providers[c.rng[c.i]], c.outc[c.i]))

RouterComplete(task, outc) ==
    RunComplete([IdleCall EXCEPT !.pc = "loop", !.task = task, !.outc = outc,
                                 !.rng = CompleteOrder(fallback, task), !.i = 1])

Outcomes == [1..Len(fallback) -> BOOLEAN]

\* The locals of one ProcessMessage invocation.  History fields:
\*   afterClear  the user's last completed message was a /start or /clear
\*               that ran with no other message of the user in flight
\*   overlap     another message of the same user was in flight meanwhile
\*   retry       the conversation's last summarization call had failed
\*   userStored, asstStored  AddMessage returned nil
\*   sumStored   SetSummary returned nil
\*   seenSummary conv.Summary when maybeCompact was entered
\*   teach       outcome of the TaskTeaching call: "none", "ok" or "err"
\*   nAnalysis, nTeaching    Router calls issued so far
\*   turn        identifies the invocation: the number of inbound messages
\*               still to be delivered when it began (earlier is greater)
\*   during      the invocations of the same user in flight when it began
\*   sumCovers   the positions of the messages the summarization response
\*               of this invocation was produced from
IdleProc ==
    [pc |-> "idle", msg |-> NoMsg, conv |-> 0, turn |-> 0, during |-> {},
     afterClear |-> FALSE, overlap |-> FALSE, retry |-> FALSE,
     userStored |-> FALSE, asstStored |-> FALSE,
     seenLen |-> 0, seenAt |-> 0, seenSummary |-> "", tokens |-> 0,
     compactUpTo |-> 0, sumOk |-> FALSE, sumResp |-> "", sumStored |-> FALSE,
     sumCovers |-> {},
     nAnalysis |-> 0, nTeaching |-> 0,
     prompt |-> <<>>, teach |-> "none", resp |-> EmptyCompletion,
     ret |-> "", err |-> "nil"]

-----------------------------------------------------------------------------
(* agent.Engine: ProcessMessage, one step per access to shared state.  The *)
(* Conversation a goroutine holds is the pointer MemoryStore handed out,   *)
(* so every conv.X below reads or writes the stored object itself.         *)

AllProcs == {1, 2}

Set(p, r) == [eng EXCEPT ![p] = r]

\* NewEngine, lines 57-60: without an EventLogger the Engine logs to
\* NopEventLogger.
NewEventLogger(l) == IF l = "nil" THEN "nop" ELSE l

\* The Event values the Engine emits (Data and CreatedAt left out).
Event(conversationID, userID, eventType) ==
    [conversationID |-> conversationID, userID |-> userID,
     eventType |-> eventType]

\* logEventAsync, lines 323-334: a goroutine is started that will call
\* LogEvent once.  NopEventLogger.LogEvent returns nil and keeps nothing,
\* so its goroutines are not tracked.
LogEventAsync(ts, event) ==
    IF logger = "nop" THEN ts
    ELSE Append(ts, [event |-> event, state |-> "running", calls |-> 0])

\* The goroutines of messages of user u that are running.
InFlight(u) == {q \in procs : eng[q].pc # "idle" /\ eng[q].msg.userID = u}

\* go handler(msg): goroutine p starts with the locals r while the other
\* goroutines of the same user keep running.
Go(p, m, r) ==
    [q \in AllProcs |->
        IF q = p THEN [r EXCEPT !.overlap = (InFlight(m.userID) # {})]
        ELSE IF q \in InFlight(m.userID)
             THEN [eng[q] EXCEPT !.overlap = TRUE]
             ELSE eng[q]]

\* History: the message that invocation p appended last to conversation id
\* is recorded as its.
Appended(cs, id, p) ==
    [cs EXCEPT ![id].by =
        Append(@, [turn |-> eng[p].turn, during |-> eng[p].during,
                   role |-> Last(cs[id].messages).role])]

\* ProcessMessage lines 72-85 and handleCommand lines 336-352: dispatch on
\* the command prefix and the first GetActiveConversation.
EngineBegin(p, m) ==
    /\ ~crashed
    /\ p \in procs
    /\ m \in inbound
    /\ eng[p].pc = "idle"
    /\ budget > 0
    /\ budget' = budget - 1
    /\ LET start == [IdleProc EXCEPT !.msg = m,
                          !.afterClear = (m.userID \in cleared),
                          !.turn = budget,
                          !.during = {eng[q].turn : q \in InFlight(m.userID)}]
       IN
       IF HasSlashPrefix(m.text)
       THEN IF CmdOf(m.text) \in {"/start", "/clear"}
            THEN \/ \E id \in ActiveOf(convs, m.userID) :
                       eng' = Go(p, m, [start EXCEPT !.pc = "end", !.conv = id])
                 \/ /\ ActiveOf(convs, m.userID) = {}
                    /\ eng' = Go(p, m, [start EXCEPT !.pc = "ret",
                            !.ret = IF CmdOf(m.text) = "/start"
                                    THEN "welcome" ELSE Cleared])
            ELSE eng' = Go(p, m, [start EXCEPT !.pc = "ret",
                                    !.ret = "unknown command"])
       ELSE \/ \E id \in ActiveOf(convs, m.userID) :
                  eng' = Go(p, m, [start EXCEPT !.pc = "addUser", !.conv = id])
            \/ /\ ActiveOf(convs, m.userID) = {}
               /\ eng' = Go(p, m, [start EXCEPT !.pc = "create"])
    /\ UNCHANGED <<rvars, ovars, lvars, convs, cfg, procs, inbound, sums, faults,
                   cleared,
                   crashed>>

\* endActiveConversation, line 353: EndConversation(conv.ID).
EngineEndConversation(p) ==
    /\ ~crashed
    /\ eng[p].pc = "end"
    /\ convs' = StoreEnd(convs, eng[p].conv)
    /\ eng' = Set(p, [eng[p] EXCEPT !.pc = "ret",
                         !.ret = IF CmdOf(eng[p].msg.text) = "/start"
                                 THEN "welcome" ELSE Cleared])
    /\ UNCHANGED <<rvars, ovars, lvars, cfg, procs, inbound, sums, faults, cleared,
                   budget,
                   crashed>>

\* getOrCreateConversation, lines 301-311: CreateConversation, then
\* GetConversation(id) returns the pointer to the new entry.
EngineCreate(p) ==
    /\ ~crashed
    /\ eng[p].pc = "create"
    /\ convs' = StoreCreate(convs, eng[p].msg.userID)
    /\ eng' = Set(p, [eng[p] EXCEPT !.pc = "addUser", !.conv = Len(convs) + 1])
    /\ tasks' = LogEventAsync(tasks, Event(Len(convs) + 1, eng[p].msg.userID,
                                           "session_started"))
    /\ UNCHANGED <<rvars, ovars, logger, events, cfg, procs, inbound, sums, faults,
                   cleared, budget,
                   crashed>>

\* A variant in which a failed AddMessage ends the turn.
AfterAddUserAbort(ok) == IF ok THEN "check" ELSE "ret"

\* ProcessMessage, lines 104-127: the error of AddMessage is logged and the
\* turn goes on to the compaction check.
AfterAddUser(ok) == "check"

\* ProcessMessage, lines 92-124: the user message is appended, or the
\* Store returns an error and the log stays as it was.
EngineAddUser(p) ==
    /\ ~crashed
    /\ eng[p].pc = "addUser"
    /\ \/ /\ convs' = Appended(StoreAddMessage(convs, eng[p].conv,
                             UserMessage(UserContent(eng[p].msg))),
                         eng[p].conv, p)
          /\ eng' = Set(p, [eng[p] EXCEPT !.userStored = TRUE,
                                          !.pc = AfterAddUser(TRUE)])
       \/ /\ "AddMessage" \in faults
          /\ UNCHANGED convs
          /\ eng' = Set(p, [eng[p] EXCEPT !.pc = AfterAddUser(FALSE)])
    /\ tasks' = LogEventAsync(tasks, Event(eng[p].conv, eng[p].msg.userID,
                                           "message_sent"))
    /\ UNCHANGED <<rvars, ovars, logger, events, cfg, procs, inbound, sums, faults,
                   cleared, budget,
                   crashed>>

\* maybeCompact, lines 232-238: the threshold test on messages[compactedAt:].
EngineCheck(p) ==
    /\ ~crashed
    /\ eng[p].pc = "check"
    /\ LET c == convs[eng[p].conv]
           n == Len(c.messages)
           unc == SubSeq(c.messages, c.compactedAt + 1, n)
           tok == EstimateTokens(unc)
       IN IF c.compactedAt > n \/ c.compactedAt < 0
          THEN crashed' = TRUE /\ UNCHANGED eng
          ELSE /\ UNCHANGED crashed
               /\ eng' = Set(p, [eng[p] EXCEPT
                     !.seenLen = n, !.seenAt = c.compactedAt, !.tokens = tok,
                     !.retry = c.pending, !.seenSummary = c.summary,
                     !.pc = IF OverThreshold(n - c.compactedAt, tok, cfg)
                            THEN "check2" ELSE "main"])
    /\ UNCHANGED <<rvars, ovars, lvars, convs, cfg, procs, inbound, sums, faults,
                   cleared,
                   budget>>

\* maybeCompact, lines 241-244: compactUpTo and the nothing-new test.
EngineCheck2(p) ==
    /\ ~crashed
    /\ eng[p].pc = "check2"
    /\ LET c == convs[eng[p].conv]
           upTo == CompactUpTo(Len(c.messages), cfg)
       IN eng' = Set(p, [eng[p] EXCEPT !.compactUpTo = upTo,
                 !.pc = IF upTo <= c.compactedAt THEN "main" ELSE "summarize"])
    /\ UNCHANGED <<rvars, ovars, lvars, convs, cfg, procs, inbound, sums, faults,
                   cleared,
                   budget, crashed>>

\* A variant of the slice to summarize that starts at the first message.
ToSummarizeFromStart(conv) == 0

\* maybeCompact, line 246: the low bound of conv.Messages[CompactedAt:compactUpTo]
ToSummarizeFrom(conv) == conv.compactedAt

\* A variant of the failure path that marks the whole log as compacted.
CompactFailedGiveUp(conv) ==
    [conv EXCEPT !.pending = TRUE, !.compactedAt = Len(conv.messages)]

\* maybeCompact, lines 275-278: on an error of the summarization call the
\* conversation is left as it is (pending is the history field).
CompactFailed(conv) == [conv EXCEPT !.pending = TRUE]

\* A variant that sends the TaskAnalysis request again when it failed.
AfterSummarizeRetry(ok) == IF ok THEN "setsum" ELSE "summarize"

\* maybeCompact, lines 275-280: on an error maybeCompact returns (and the
\* TaskTeaching request of the turn follows), otherwise SetSummary is next.
AfterSummarize(ok) == IF ok THEN "setsum" ELSE "main"

\* History: the positions of the messages that go into the summarization
\* request, lines 246-261: the slice messages[compactedAt:compactUpTo] and,
\* through the previous summary if there is one, what that one covers.
Summarized(conv, compactUpTo) ==
    (IF conv.summary # "" THEN conv.covered ELSE {})
        \cup ((ToSummarizeFrom(conv) + 1)..compactUpTo)

\* maybeCompact, lines 246-278: the slice to summarize is taken and the
\* TaskAnalysis request is sent through the Router.  The slice expression
\* panics when its low bound exceeds its high bound; the high bound was
\* computed from the length of the same log, which never shrinks.
EngineSummarize(p) ==
    /\ ~crashed
    /\ eng[p].pc = "summarize"
    /\ LET c == convs[eng[p].conv] IN
       IF ToSummarizeFrom(c) > eng[p].compactUpTo
       THEN crashed' = TRUE /\ UNCHANGED <<eng, convs>>
       ELSE /\ UNCHANGED crashed
            /\ \E outc \in Outcomes, content \in sums :
                 LET r == RouterComplete(TaskAnalysis, outc) IN
                 /\ eng' = Set(p, [eng[p] EXCEPT
                       !.nAnalysis = @ + 1,
                       !.sumOk = (r.status = "ok"),
                       !.sumResp = IF r.status = "ok" THEN content ELSE "",
                       !.sumCovers = IF r.status = "ok"
                                     THEN Summarized(c, eng[p].compactUpTo)
                                     ELSE {},
                       !.pc = AfterSummarize(r.status = "ok")])
                 /\ convs' = [convs EXCEPT ![eng[p].conv] =
                       IF r.status = "ok"
                       THEN [c EXCEPT !.pending = FALSE,
                                !.ranges = Append(@, <<ToSummarizeFrom(c),
                                                       eng[p].compactUpTo>>)]
                       ELSE CompactFailed(c)]
    /\ UNCHANGED <<rvars, ovars, lvars, cfg, procs, inbound, sums, faults, cleared,
                   budget>>

\* maybeCompact, lines 280-283: SetSummary(conv.ID, resp.Content,
\* compactUpTo); on an error of the Store maybeCompact returns.
EngineSetSummary(p) ==
    /\ ~crashed
    /\ eng[p].pc = "setsum"
    /\ \/ /\ convs' = [StoreSetSummary(convs, eng[p].conv, eng[p].sumResp,
                                       eng[p].compactUpTo)
                         EXCEPT ![eng[p].conv].covered = eng[p].sumCovers]
          /\ eng' = Set(p, [eng[p] EXCEPT !.sumStored = TRUE,
                                          !.pc = "setlocal"])
       \/ /\ "SetSummary" \in faults
          /\ UNCHANGED convs
          /\ eng' = Set(p, [eng[p] EXCEPT !.pc = "main"])
    /\ UNCHANGED <<rvars, ovars, lvars, cfg, procs, inbound, sums, faults, cleared,
                   budget,
                   crashed>>

\* maybeCompact, line 286: conv.Summary is assigned through the pointer,
\* outside the Store's mutex.
EngineSetLocal(p) ==
    /\ ~crashed
    /\ eng[p].pc = "setlocal"
    /\ convs' = [convs EXCEPT ![eng[p].conv].summary = eng[p].sumResp,
                              ![eng[p].conv].covered = eng[p].sumCovers]
    /\ eng' = Set(p, [eng[p] EXCEPT !.pc = "setlocalAt"])
    /\ UNCHANGED <<rvars, ovars, lvars, cfg, procs, inbound, sums, faults, cleared,
                   budget,
                   crashed>>

\* maybeCompact, line 287: conv.CompactedAt is assigned through the
\* pointer, in a statement of its own.
EngineSetLocalAt(p) ==
    /\ ~crashed
    /\ eng[p].pc = "setlocalAt"
    /\ convs' = [convs EXCEPT ![eng[p].conv].compactedAt = eng[p].compactUpTo]
    /\ eng' = Set(p, [eng[p] EXCEPT !.pc = "main"])
    /\ UNCHANGED <<rvars, ovars, lvars, cfg, procs, inbound, sums, faults, cleared,
                   budget,
                   crashed>>

\* A variant of the failure path that hands the error to the caller.
CompletionFailedWithError(e) ==
    [e EXCEPT !.teach = "err", !.ret = "", !.err = "AI completion failed",
              !.pc = "ret"]

\* ProcessMessage, lines 157-160: the Router returned an error.
CompletionFailed(e) ==
    [e EXCEPT !.teach = "err", !.ret = Apology, !.err = "nil", !.pc = "ret"]

\* ProcessMessage, lines 130-160: the prompt is assembled from the
\* conversation; a photo without image data ends the turn here, otherwise
\* the TaskTeaching request is sent through the Router.
EngineMain(p) ==
    /\ ~crashed
    /\ eng[p].pc = "main"
    /\ LET c == convs[eng[p].conv]
           m == eng[p].msg
           e == [eng[p] EXCEPT !.seenLen = 0, !.seenAt = 0, !.tokens = 0,
                               !.seenSummary = "", !.compactUpTo = 0,
                               !.sumCovers = {}]
       IN IF c.summary # "" /\ c.compactedAt > Len(c.messages)
          THEN crashed' = TRUE /\ UNCHANGED eng
          ELSE /\ UNCHANGED crashed
               /\ IF m.hasImage /\ m.imageDataURL = ""
                  THEN eng' = Set(p, [e EXCEPT !.ret = ImageFailed,
                                               !.err = "nil", !.pc = "ret"])
                  ELSE \E outc \in Outcomes, content \in TeachResponses :
                         LET r == RouterComplete(TaskTeaching, outc)
                             sent == [e EXCEPT !.nTeaching = @ + 1,
                                               !.prompt = BuildPrompt(c, m)]
                         IN eng' = Set(p,
                               IF r.status = "ok"
                               THEN [sent EXCEPT
                                       !.teach = "ok",
                                       !.resp = ProviderResponse(r.resp.from,
                                                                 content),
                                       !.pc = "addAsst"]
                               ELSE CompletionFailed(sent))
    /\ UNCHANGED <<rvars, ovars, lvars, convs, cfg, procs, inbound, sums, faults,
                   cleared,
                   budget>>

\* ProcessMessage, lines 162-189: the assistant message is appended (or the
\* Store returns an error, which is logged) and the plain content returned.
EngineAddAssistant(p) ==
    /\ ~crashed
    /\ eng[p].pc = "addAsst"
    /\ LET plainContent == NormalizeEq(eng[p].resp.content) IN
       \/ /\ convs' = Appended(StoreAddMessage(convs, eng[p].conv,
                             AssistantMessage(plainContent, eng[p].resp)),
                         eng[p].conv, p)
          /\ eng' = Set(p, [eng[p] EXCEPT !.pc = "ret", !.prompt = <<>>,
                               !.asstStored = TRUE,
                               !.ret = plainContent, !.err = "nil"])
       \/ /\ "AddMessage" \in faults
          /\ UNCHANGED convs
          /\ eng' = Set(p, [eng[p] EXCEPT !.pc = "ret", !.prompt = <<>>,
                               !.ret = plainContent, !.err = "nil"])
    /\ tasks' = LogEventAsync(tasks, Event(eng[p].conv, eng[p].msg.userID,
                                           "ai_response"))
    /\ UNCHANGED <<rvars, ovars, logger, events, cfg, procs, inbound, sums, faults,
                   cleared, budget,
                   crashed>>

\* ProcessMessage returns; the goroutine ends.
EngineReturn(p) ==
    /\ ~crashed
    /\ eng[p].pc = "ret"
    /\ eng' = Set(p, IdleProc)
    /\ cleared' =
          IF ~HasSlashPrefix(eng[p].msg.text)
          THEN cleared \ {eng[p].msg.userID}
          ELSE IF CmdOf(eng[p].msg.text) \in {"/start", "/clear"}
               THEN IF eng[p].overlap
                    THEN cleared \ {eng[p].msg.userID}
                    ELSE cleared \cup {eng[p].msg.userID}
               ELSE cleared
    /\ UNCHANGED <<rvars, ovars, lvars, convs, cfg, procs, inbound, sums, faults, budget,
                   crashed>>

\* The Router as the server wires it before the first message.
InitEngineRouter ==
    /\ providers = [n \in Names |-> IF n = "openai" THEN 1 ELSE 2]
    /\ fallback = <<"openai", "ollama">>
    /\ nreg = 2
    /\ rcall = IdleCall
    /\ rlast = NoCall

\* The Router of a server configured with one provider only.
InitSingleRouter ==
    /\ providers = [n \in Names |-> IF n = "openai" THEN 1 ELSE NoProv]
    /\ fallback = <<"openai">>
    /\ nreg = 1
    /\ rcall = IdleCall
    /\ rlast = NoCall

-----------------------------------------------------------------------------
(* The vendor adapters of package ai: how Complete maps the neutral
   message list into the vendor request body.  The body is a JSON object,
   modelled as a function on its keys; the keys that do not depend on the
   message list (model, max_tokens, temperature) are left out. *)

Vendors == {"openai", "ollama", "anthropic", "google"}

\* The adapters whose StreamComplete runs Complete before it returns.
SyncVendors == {"openai", "ollama", "google"}

Roles == {"system", "user", "assistant"}

Contents == {"", "x", "y"}

ImageURLSets == {<<>>, <<"u">>}

\* ai.Message.
NeutralMessages == [role : Roles, content : Contents, imageURLs : ImageURLSets]

\* The message lists of at most n messages.
Requests(n) == UNION {[1..k -> NeutralMessages] : k \in 0..n}

\* openaiMessage(m): the conversion keeps Role and Content.
openaiMessage(m) == [role |-> m.role, content |-> m.content]

\* OpenAIProvider.Complete and OllamaProvider.Complete: every message of the
\* request, converted, at its own index.
OpenAIBody(msgs) ==
    [messages |-> [i \in 1..Len(msgs) |-> openaiMessage(msgs[i])]]

\* The loop of AnthropicProvider.Complete: a system message overwrites
\* systemPrompt and is skipped, any other message is appended.
RECURSIVE AnthropicSeparate(_, _, _)
AnthropicSeparate(msgs, systemPrompt, messages) ==
    IF msgs = <<>>
    THEN [systemPrompt |-> systemPrompt, messages |-> messages]
    ELSE LET m == Head(msgs) IN
         IF m.role = "system"
         THEN AnthropicSeparate(Tail(msgs), m.content, messages)
         ELSE AnthropicSeparate(Tail(msgs), systemPrompt,
                  Append(messages, [role |-> m.role, content |-> m.content]))

\* AnthropicProvider.Complete: body["system"] is set only for a non-empty
\* systemPrompt.
AnthropicBody(msgs) ==
    LET sep == AnthropicSeparate(msgs, "", <<>>) IN
    IF sep.systemPrompt # ""
    THEN [messages |-> sep.messages, system |-> sep.systemPrompt]
    ELSE [messages |-> sep.messages]

\* The role mapping of GoogleProvider.Complete.
GeminiRole(role) == IF role = "assistant" THEN "model" ELSE role

\* The loop of GoogleProvider.Complete: a system message is skipped, any
\* other becomes a content with one text part.
RECURSIVE GeminiContents(_, _)
GeminiContents(msgs, contents) ==
    IF msgs = <<>>
    THEN contents
    ELSE LET m == Head(msgs) IN
         IF GeminiRole(m.role) = "system"
         THEN GeminiContents(Tail(msgs), contents)
         ELSE GeminiContents(Tail(msgs),
                  Append(contents, [role |-> GeminiRole(m.role),
                                    parts |-> <<[text |-> m.content]>>]))

GoogleBody(msgs) == [contents |-> GeminiContents(msgs, <<>>)]

\* The request body the adapter of vendor v builds.
VendorBody(v, msgs) ==
    CASE v = "anthropic" -> AnthropicBody(msgs)
      [] v = "google" -> GoogleBody(msgs)
      [] OTHER -> OpenAIBody(msgs)

NoPayload == [vendor |-> "none"]

NoResponse == [err |-> "none"]

\* ch := make(chan StreamChunk, 1)
MakeChan == [buf |-> <<>>, cap |-> 1, closed |-> FALSE]

NoChan == [buf |-> <<>>, cap |-> 0, closed |-> FALSE]

IdleProducer == [vendor |-> "none", pc |-> "idle"]

IdleConsumer == [pc |-> "idle", ch |-> "none", got |-> <<>>]

\* No provider has been called.
NoProviderCall ==
    /\ request = <<>>
    /\ payload = NoPayload
    /\ response = NoResponse
    /\ chan = NoChan
    /\ producer = IdleProducer
    /\ consumer = IdleConsumer

-----------------------------------------------------------------------------
(* chat.SplitMessage (telegram.go lines 214-240).  A Go string is the
   sequence of its bytes; a slice of strings is a sequence of them, nil
   being the empty one. *)

Bytes == {"a", "b", " ", "\n"}

\* The strings of at most n bytes.
Texts(n) == UNION {[1..k -> Bytes] : k \in 0..n}

\* strings.LastIndex(s, c) for a one-byte c: the greatest 0-based index that
\* holds c, or -1.
LastIndex(s, c) ==
    LET at == {i \in 0..(Len(s) - 1) : s[i + 1] = c} IN
    IF at = {} THEN -1 ELSE CHOOSE i \in at : \A j \in at : j <= i

\* text[:n] and text[n:]
Prefix(text, n) == SubSeq(text, 1, n)

Suffix(text, n) == SubSeq(text, n + 1, Len(text))

CutAtPastLimit(text, maxLen) ==
    IF LastIndex(Prefix(text, maxLen), "\n") > 0
    THEN LastIndex(Prefix(text, maxLen), "\n") + 2
    ELSE maxLen

\* cutAt of one iteration: behind the last newline within the limit, else
\* behind the last space, else the limit; a newline or space at index 0
\* does not count.
CutAt(text, maxLen) ==
    IF LastIndex(Prefix(text, maxLen), "\n") > 0
    THEN LastIndex(Prefix(text, maxLen), "\n") + 1
    ELSE IF LastIndex(Prefix(text, maxLen), " ") > 0
         THEN LastIndex(Prefix(text, maxLen), " ") + 1
         ELSE maxLen

\* The loop `for len(text) > 0`.
RECURSIVE SplitLoop(_, _, _)
SplitLoop(text, maxLen, parts) ==
    IF Len(text) = 0
    THEN parts
    ELSE IF Len(text) <= maxLen
         THEN Append(parts, text)
         ELSE SplitLoop(Suffix(text, CutAt(text, maxLen)), maxLen,
                        Append(parts, Prefix(text, CutAt(text, maxLen))))

SplitMessage(text, maxLen) ==
    IF text = <<>>
    THEN <<>>
    ELSE IF Len(text) <= maxLen
         THEN <<text>>
         ELSE SplitLoop(text, maxLen, <<>>)

NotSplit == [called |-> FALSE, parts |-> <<>>]

\* SplitMessage has not been called.
NoSplit ==
    /\ splitText = <<>>
    /\ splitMax = 1
    /\ splitParts = NotSplit

\* NewInMemoryBudget (budget.go lines 27-32): two empty maps.
NewInMemoryBudget ==
    /\ budgets = <<>>
    /\ usage = <<>>
    /\ recorded = <<>>
    /\ ncalls = 0
    /\ blast = [op |-> "none"]

\* The components outside Router and Engine, freshly constructed.
InitTrackers ==
    /\ NewInMemoryBudget
    /\ nscalls = 0
    /\ slast = [op |-> "none"]

InitOther ==
    /\ InitTrackers
    /\ NoProviderCall
    /\ NoSplit

InitStore ==
    /\ convs = <<>>
    /\ cleared = {}
    /\ eng = [p \in AllProcs |-> IdleProc]
    /\ crashed = FALSE

\* An Engine built without EventLogger.
InitNopLogger ==
    /\ logger = NewEventLogger("nil")
    /\ tasks = <<>>
    /\ events = <<>>

\* An Engine built with a recording EventLogger.
InitMemoryLogger ==
    /\ logger = NewEventLogger("memory")
    /\ tasks = <<>>
    /\ events = <<>>

\* Two goroutines: messages are handled concurrently (go handler(msg)).
Init ==
    /\ InitOther
    /\ InitNopLogger
    /\ InitSingleRouter
    /\ InitStore
    /\ procs = {1, 2}
    /\ cfg \in {NewEngine(c) : c \in ConcConfigs}
    /\ inbound = ConcInbound
    /\ sums = {"summary"}
    /\ faults = {}
    /\ budget = MaxMsgs

\* Two goroutines, a short session.
InitConc ==
    /\ InitOther
    /\ InitNopLogger
    /\ InitSingleRouter
    /\ InitStore
    /\ procs = {1, 2}
    /\ cfg \in {NewEngine(c) : c \in ConcConfigs}
    /\ inbound = ConcInbound
    /\ sums = {"summary"}
    /\ faults = {}
    /\ budget = MaxMsgsConc

\* One goroutine: every ProcessMessage returns before the next starts.
\* Short sessions of two users behind one provider, short sessions of one
\* user behind the two-provider chain, one long session of one user under
\* the thresholds of TestEngine_Compaction, or a session with photos.
InitSeq ==
    /\ InitOther
    /\ InitNopLogger
    /\ InitStore
    /\ procs = {1}
    /\ sums = SumResponses
    /\ faults = {}
    /\ \/ /\ InitSingleRouter
          /\ cfg \in {NewEngine(c) : c \in SeqConfigs}
          /\ inbound = Inbound
          /\ budget = MaxMsgsSeq
       \/ /\ InitEngineRouter
          /\ cfg = NewEngine(PhotoConfig)
          /\ inbound = LongInbound
          /\ budget = MaxMsgsSeq
       \/ /\ InitSingleRouter
          /\ cfg = NewEngine(LongConfig)
          /\ inbound = LongInbound
          /\ budget = MaxMsgsLong
       \/ /\ InitSingleRouter
          /\ cfg = NewEngine(PhotoConfig)
          /\ inbound = PhotoInbound
          /\ budget = MaxMsgsSeq

\* One goroutine on a Store whose AddMessage and SetSummary may return an
\* error (the ConversationStore interface; PostgresStore on a lost
\* connection or an empty content).
InitFaulty ==
    /\ InitOther
    /\ InitNopLogger
    /\ InitEngineRouter
    /\ InitStore
    /\ procs = {1}
    /\ sums = SumResponses
    /\ faults = {"AddMessage", "SetSummary"}
    /\ cfg = NewEngine(PhotoConfig)
    /\ inbound = PhotoInbound
    /\ budget = MaxMsgsSeq

Next ==
    \E p \in AllProcs :
        \/ \E m \in AllInbound : EngineBegin(p, m)
        \/ EngineEndConversation(p)
        \/ EngineCreate(p)
        \/ EngineAddUser(p)
        \/ EngineCheck(p)
        \/ EngineCheck2(p)
        \/ EngineSummarize(p)
        \/ EngineSetSummary(p)
        \/ EngineSetLocal(p)
        \/ EngineSetLocalAt(p)
        \/ EngineMain(p)
        \/ EngineAddAssistant(p)
        \/ EngineReturn(p)

\* A variant of the failure path of the logging goroutine that calls
\* LogEvent again.
LogFailedRetry(t) == [t EXCEPT !.calls = @ + 1]

\* logEventAsync, lines 325-332: the error of LogEvent is logged with
\* slog.Warn and the goroutine ends.
LogFailed(t) == [t EXCEPT !.state = "failed", !.calls = @ + 1]

\* The goroutine of logEventAsync calls LogEvent and the call returns:
\* MemoryEventLogger.LogEvent (events.go lines 47-60) appends the event;
\* an EventLogger that fails returns an error and keeps nothing.  A call
\* that never returns leaves the goroutine running.
LogEventReturn(i) ==
    /\ ~crashed
    /\ i \in 1..Len(tasks)
    /\ tasks[i].state = "running"
    /\ \/ /\ events' = Append(events, tasks[i].event)
          /\ tasks' = [tasks EXCEPT ![i].state = "ok", ![i].calls = @ + 1]
       \/ /\ "LogEvent" \in faults
          /\ UNCHANGED events
          /\ tasks' = [tasks EXCEPT ![i] = LogFailed(@)]
    /\ UNCHANGED <<rvars, ovars, convs, cfg, procs, eng, inbound, sums, faults,
                   cleared, budget, crashed, logger>>

\* One goroutine, one user, an EventLogger that records and may fail.
InitEvents ==
    /\ InitOther
    /\ InitSingleRouter
    /\ InitStore
    /\ InitMemoryLogger
    /\ procs = {1}
    /\ sums = {"summary"}
    /\ faults = {"LogEvent"}
    /\ cfg \in {NewEngine(c) : c \in ConcConfigs}
    /\ inbound = LongInbound
    /\ budget = MaxMsgsEv

NextEvents ==
    \/ Next
    \/ \E i \in 1..Len(tasks) : LogEventReturn(i)

Spec == Init /\ [][Next]_vars

SpecEvents == InitEvents /\ [][NextEvents]_vars

SpecSeq == InitSeq /\ [][Next]_vars

SpecConc == InitConc /\ [][Next]_vars

SpecFaulty == InitFaulty /\ [][Next]_vars

-----------------------------------------------------------------------------
(* ai.Router: the operations *)

\* A variant of Register that does not take the lock.
LockFreeAlways(c) == TRUE

\* r.mu.Lock() of Register returns only while no Complete holds mu.RLock.
LockFree(c) == c.pc = "idle"

\* Register (lines 25-30), under mu.Lock.
Register(name, p) ==
    /\ nreg < MaxReg
    /\ LockFree(rcall)
    /\ providers' = RegisterProviders(providers, name, p)
    /\ fallback' = RegisterFallback(fallback, name)
    /\ nreg' = nreg + 1
    /\ rlast' = NoCall
    /\ UNCHANGED <<rcall, evars, ovars>>

\* Complete, lines 33-38: RLock, the range expression is evaluated once.
CompleteBegin(task, outc) ==
    /\ rcall.pc = "idle"
    /\ rcall' = [IdleCall EXCEPT !.pc = "loop", !.task = task, !.outc = outc,
                                 !.rng = CompleteOrder(fallback, task), !.i = 1]
    /\ UNCHANGED <<providers, fallback, nreg, rlast, evars, ovars>>

\* Complete, lines 38-57: next iteration, or fall out of the loop.
CompleteStep ==
    /\ rcall.pc = "loop"
    /\ rcall' = IF rcall.i > Len(rcall.rng)
                THEN CompleteExhausted(rcall)
                ELSE CompleteIter(rcall, providers[rcall.rng[rcall.i]],
                                  rcall.outc[rcall.i])
    /\ UNCHANGED <<providers, fallback, nreg, rlast, evars, ovars>>

\* Complete returns (deferred RUnlock); the call is recorded.
CompleteReturn ==
    /\ rcall.pc = "done"
    /\ rlast' = [task |-> rcall.task, outc |-> rcall.outc,
                 invoked |-> rcall.invoked, status |-> rcall.status,
                 resp |-> rcall.resp]
    /\ rcall' = IdleCall
    /\ UNCHANGED <<providers, fallback, nreg, evars, ovars>>

InitRouter ==
    /\ providers = NewRouterProviders
    /\ fallback = <<>>
    /\ nreg = 0
    /\ rcall = IdleCall
    /\ rlast = NoCall
    /\ convs = <<>>
    /\ cfg = NewEngine([CompactThreshold |-> 0, CompactTokenThreshold |-> 0,
                        KeepRecent |-> 0])
    /\ procs = {}
    /\ eng = [p \in AllProcs |-> IdleProc]
    /\ inbound = {}
    /\ sums = {}
    /\ faults = {}
    /\ cleared = {}
    /\ budget = 0
    /\ crashed = FALSE
    /\ InitNopLogger
    /\ InitOther

NextRouter ==
    \/ \E name \in Names, p \in ProvIds : Register(name, p)
    \/ \E task \in Tasks, outc \in [1..Len(fallback) -> BOOLEAN] :
          CompleteBegin(task, outc)
    \/ CompleteStep
    \/ CompleteReturn

SpecRouter == InitRouter /\ [][NextRouter]_vars

-----------------------------------------------------------------------------
(* ai.InMemoryBudget.  Token quantities are counted in units of 2^61, so   *)
(* that the int64 range -2^63 .. 2^63-1 of the usage and budget values is  *)
(* -4 .. 3 units and the sums of a few calls reach it.                     *)

\* The number of units in the int64 range.
Int64Units == 8

\* int64 addition wraps around (Go, two's complement).
WrapInt64(k) == ((k + Int64Units \div 2) % Int64Units) - Int64Units \div 2

\* The tenant and user ids the calls are made with.
TenantIDs == {"a", "a:b"}
UserIDs == {"c", "b:c"}

\* The values passed to Record (int) and to SetBudget (int64), in units.
RecordTokens == {-1, 0, 1, 3}
BudgetTokens == {0, 2}

\* A variant of the key that keeps the user id only.
budgetKeyUserOnly(tenantID, userID) == userID

\* budgetKey, lines 77-79.
budgetKey(tenantID, userID) == tenantID \o ":" \o userID

\* A Go map is a function on the keys it holds.
HasKey(mp, key) == key \in DOMAIN mp

\* mp[key]: the zero value when the key is missing.
MapGet(mp, key) == IF HasKey(mp, key) THEN mp[key] ELSE 0

\* mp[key] = value.
MapPut(mp, key, value) ==
    [k \in DOMAIN mp \cup {key} |-> IF k = key THEN value ELSE mp[k]]

\* A variant of Check in which used = budget is still within budget.
CheckResultInclusive(bs, us, key) ==
    IF ~HasKey(bs, key) THEN TRUE ELSE MapGet(us, key) <= MapGet(bs, key)

\* Check, lines 45-53.
CheckResult(bs, us, key) ==
    IF ~HasKey(bs, key) THEN TRUE ELSE MapGet(us, key) < MapGet(bs, key)

\* A variant of Record that overwrites the usage.
RecordUsageOverwrite(us, key, tokens) == MapPut(us, key, WrapInt64(tokens))

\* Record, line 65: b.usage[key] += int64(tokens).
RecordUsage(us, key, tokens) ==
    MapPut(us, key, WrapInt64(MapGet(us, key) + tokens))

\* A variant of the test of Record that lets every value through.
RecordRejectsNever(tokens) == FALSE

\* Record, lines 57-59.
RecordRejects(tokens) == tokens < 0

BudgetCall(op, tenantID, userID, tokens) ==
    [op |-> op, tenantID |-> tenantID, userID |-> userID, tokens |-> tokens,
     ok |-> TRUE, err |-> "nil", used |-> 0, budget |-> 0]

\* SetBudget, lines 35-39.
SetBudget(tenantID, userID, tokens) ==
    /\ ncalls < MaxCalls
    /\ ncalls' = ncalls + 1
    /\ budgets' = MapPut(budgets, budgetKey(tenantID, userID), tokens)
    /\ blast' = BudgetCall("SetBudget", tenantID, userID, tokens)
    /\ UNCHANGED <<usage, recorded>>
    /\ UNCHANGED <<rvars, evars, svars, pvars, tvars>>

\* Check, lines 41-54.
Check(tenantID, userID) ==
    /\ ncalls < MaxCalls
    /\ ncalls' = ncalls + 1
    /\ blast' = [BudgetCall("Check", tenantID, userID, 0) EXCEPT
                    !.ok = CheckResult(budgets, usage,
                                       budgetKey(tenantID, userID))]
    /\ UNCHANGED <<budgets, usage, recorded>>
    /\ UNCHANGED <<rvars, evars, svars, pvars, tvars>>

\* Record, lines 56-67.
Record(tenantID, userID, tokens) ==
    /\ ncalls < MaxCalls
    /\ ncalls' = ncalls + 1
    /\ LET key == budgetKey(tenantID, userID) IN
       IF RecordRejects(tokens)
       THEN /\ blast' = [BudgetCall("Record", tenantID, userID, tokens)
                           EXCEPT !.err = "tokens must be non-negative"]
            /\ UNCHANGED <<usage, recorded>>
       ELSE /\ usage' = RecordUsage(usage, key, tokens)
            /\ recorded' = MapPut(recorded, key,
                                  MapGet(recorded, key) + tokens)
            /\ blast' = BudgetCall("Record", tenantID, userID, tokens)
    /\ UNCHANGED budgets
    /\ UNCHANGED <<rvars, evars, svars, pvars, tvars>>

\* Usage, lines 69-75.
Usage(tenantID, userID) ==
    /\ ncalls < MaxCalls
    /\ ncalls' = ncalls + 1
    /\ LET key == budgetKey(tenantID, userID) IN
       blast' = [BudgetCall("Usage", tenantID, userID, 0) EXCEPT
                   !.used = MapGet(usage, key),
                   !.budget = MapGet(budgets, key)]
    /\ UNCHANGED <<budgets, usage, recorded>>
    /\ UNCHANGED <<rvars, evars, svars, pvars, tvars>>

\* A fresh InMemoryBudget; Router and Engine are not used.
InitBudget == InitRouter

NextBudget ==
    \E tenantID \in TenantIDs, userID \in UserIDs :
        \/ \E tokens \in BudgetTokens : SetBudget(tenantID, userID, tokens)
        \/ Check(tenantID, userID)
        \/ \E tokens \in RecordTokens : Record(tenantID, userID, tokens)
        \/ Usage(tenantID, userID)

SpecBudget == InitBudget /\ [][NextBudget]_vars

-----------------------------------------------------------------------------
(* agent.MemoryStore, its methods called directly with any id *)

\* conv, ok := s.conversations[id]
StoreHas(cs, id) == id \in 1..Len(cs)

NotFound == "conversation not found"

StoreCall(op, id, userID) ==
    [op |-> op, id |-> id, userID |-> userID, err |-> "nil", found |-> TRUE]

\* A variant of the failing lookup that returns no error.
MissingSilently(call) == [call EXCEPT !.found = FALSE]

\* if !ok { return fmt.Errorf("conversation not found: %s", id) }
Missing(call) == [call EXCEPT !.err = NotFound, !.found = FALSE]

\* The ids a caller may pass: the created ones and one never created.
CallIDs == 1..(Len(convs) + 1)

\* CreateConversation, lines 209-221.
CreateConversation(userID) ==
    /\ nscalls < MaxStoreCalls
    /\ nscalls' = nscalls + 1
    /\ convs' = StoreCreate(convs, userID)
    /\ slast' = StoreCall("CreateConversation", Len(convs) + 1, userID)
    /\ UNCHANGED <<rvars, bvars, pvars, tvars, cfg, procs, eng, inbound, sums, faults,
                   cleared, budget, crashed, lvars>>

\* GetConversation, lines 223-232.
GetConversation(id) ==
    /\ nscalls < MaxStoreCalls
    /\ nscalls' = nscalls + 1
    /\ slast' = IF StoreHas(convs, id)
                THEN StoreCall("GetConversation", id, convs[id].userID)
                ELSE Missing(StoreCall("GetConversation", id, ""))
    /\ UNCHANGED <<rvars, bvars, pvars, tvars, convs, cfg, procs, eng, inbound, sums,
                   faults, cleared, budget, crashed, lvars>>

\* GetActiveConversation, lines 234-244.
GetActiveConversation(userID) ==
    /\ nscalls < MaxStoreCalls
    /\ nscalls' = nscalls + 1
    /\ \/ \E id \in ActiveOf(convs, userID) :
             slast' = StoreCall("GetActiveConversation", id, userID)
       \/ /\ ActiveOf(convs, userID) = {}
          /\ slast' = [StoreCall("GetActiveConversation", 0, userID)
                         EXCEPT !.found = FALSE]
    /\ UNCHANGED <<rvars, bvars, pvars, tvars, convs, cfg, procs, eng, inbound, sums,
                   faults, cleared, budget, crashed, lvars>>

\* AddMessage, lines 246-259.
AddMessage(id, msg) ==
    /\ nscalls < MaxStoreCalls
    /\ nscalls' = nscalls + 1
    /\ IF StoreHas(convs, id)
       THEN /\ convs' = StoreAddMessage(convs, id, msg)
            /\ slast' = StoreCall("AddMessage", id, "")
       ELSE /\ UNCHANGED convs
            /\ slast' = Missing(StoreCall("AddMessage", id, ""))
    /\ UNCHANGED <<rvars, bvars, pvars, tvars, cfg, procs, eng, inbound, sums, faults,
                   cleared, budget, crashed, lvars>>

\* SetSummary, lines 261-272.
SetSummary(id, summary, compactedAt) ==
    /\ nscalls < MaxStoreCalls
    /\ nscalls' = nscalls + 1
    /\ IF StoreHas(convs, id)
       THEN /\ convs' = StoreSetSummary(convs, id, summary, compactedAt)
            /\ slast' = StoreCall("SetSummary", id, "")
       ELSE /\ UNCHANGED convs
            /\ slast' = Missing(StoreCall("SetSummary", id, ""))
    /\ UNCHANGED <<rvars, bvars, pvars, tvars, cfg, procs, eng, inbound, sums, faults,
                   cleared, budget, crashed, lvars>>

\* EndConversation, lines 274-285.
EndConversation(id) ==
    /\ nscalls < MaxStoreCalls
    /\ nscalls' = nscalls + 1
    /\ IF StoreHas(convs, id)
       THEN /\ convs' = StoreEnd(convs, id)
            /\ slast' = StoreCall("EndConversation", id, "")
       ELSE /\ UNCHANGED convs
            /\ slast' = Missing(StoreCall("EndConversation", id, ""))
    /\ UNCHANGED <<rvars, bvars, pvars, tvars, cfg, procs, eng, inbound, sums, faults,
                   cleared, budget, crashed, lvars>>

\* A fresh MemoryStore; Router and Engine are not used.
InitDirectStore == InitRouter

NextStore ==
    \/ \E userID \in Users :
          \/ CreateConversation(userID)
          \/ GetActiveConversation(userID)
    \/ \E id \in CallIDs :
          \/ GetConversation(id)
          \/ AddMessage(id, UserMessage("hi"))
          \/ SetSummary(id, "summary", 1)
          \/ EndConversation(id)

SpecStore == InitDirectStore /\ [][NextStore]_vars

-----------------------------------------------------------------------------
(* The vendor adapters, each applied to a request *)

\* What the vendor's server makes Complete return.
ResponseContents == {"", "full answer"}

CompleteOutcomes ==
    {[err |-> "nil", content |-> c] : c \in ResponseContents}
        \cup {[err |-> "error"]}

\* Complete of the adapter of vendor v: the request body it sends and the
\* response or error it returns.
ProviderComplete(v, outcome) ==
    /\ producer = IdleProducer
    /\ payload = NoPayload
    /\ payload' = [vendor |-> v, body |-> VendorBody(v, request)]
    /\ response' = outcome
    /\ UNCHANGED <<rvars, evars, bvars, svars, tvars, request, chan, producer,
                   consumer>>

\* Router, Engine, Store and budget tracker are not used; no provider has
\* been called yet.
InitProviders(n) ==
    /\ providers = NewRouterProviders
    /\ fallback = <<>>
    /\ nreg = 0
    /\ rcall = IdleCall
    /\ rlast = NoCall
    /\ convs = <<>>
    /\ cfg = NewEngine([CompactThreshold |-> 0, CompactTokenThreshold |-> 0,
                        KeepRecent |-> 0])
    /\ procs = {}
    /\ eng = [p \in AllProcs |-> IdleProc]
    /\ inbound = {}
    /\ sums = {}
    /\ faults = {}
    /\ cleared = {}
    /\ budget = 0
    /\ crashed = FALSE
    /\ InitNopLogger
    /\ InitTrackers
    /\ request \in Requests(n)
    /\ payload = NoPayload
    /\ response = NoResponse
    /\ chan = NoChan
    /\ producer = IdleProducer
    /\ consumer = IdleConsumer
    /\ NoSplit

InitAdapters == InitProviders(MaxReq)

NextAdapters ==
    \E v \in Vendors, outcome \in CompleteOutcomes : ProviderComplete(v, outcome)

SpecAdapters == InitAdapters /\ [][NextAdapters]_vars

-----------------------------------------------------------------------------
(* StreamComplete of the vendor adapters and a caller that drains the
   returned channel with `for chunk := range ch` *)

\* StreamChunk{Content: resp.Content, Done: true}
SuccessChunk(resp) == [content |-> resp.content, done |-> TRUE, error |-> "nil"]

\* StreamChunk{Error: err}
ErrorChunk(resp) == [content |-> "", done |-> FALSE, error |-> resp.err]

CloseChanNever(ch) == ch

\* close(ch)
CloseChan(ch) == [ch EXCEPT !.closed = TRUE]

\* A call of StreamComplete of vendor v: the channel is made; the Anthropic
\* adapter starts its goroutine and returns the channel at once, the others
\* go on to call Complete while the caller waits.
StreamCompleteCall(v) ==
    /\ producer = IdleProducer
    /\ consumer = IdleConsumer
    /\ payload = NoPayload
    /\ chan' = MakeChan
    /\ producer' = [vendor |-> v, pc |-> "complete"]
    /\ consumer' = IF v \in SyncVendors
                   THEN [consumer EXCEPT !.pc = "calling"]
                   ELSE [consumer EXCEPT !.pc = "draining", !.ch = "ch"]
    /\ UNCHANGED <<rvars, evars, bvars, svars, tvars, request, payload, response>>

\* p.Complete(ctx, req) returns inside StreamComplete.  On an error the
\* synchronous adapters close the channel and return nil and the error.
StreamCompleteDone(outcome) ==
    /\ producer.pc = "complete"
    /\ payload' = [vendor |-> producer.vendor,
                   body |-> VendorBody(producer.vendor, request)]
    /\ response' = outcome
    /\ IF outcome.err # "nil" /\ producer.vendor \in SyncVendors
       THEN /\ chan' = CloseChan(chan)
            /\ producer' = [producer EXCEPT !.pc = "done"]
            /\ consumer' = [consumer EXCEPT !.pc = "failed", !.ch = "nil"]
       ELSE /\ producer' = [producer EXCEPT !.pc = "send"]
            /\ UNCHANGED <<chan, consumer>>
    /\ UNCHANGED <<rvars, evars, bvars, svars, tvars, request>>

\* ch <- StreamChunk{...}: a send on the buffered channel, which blocks
\* while the buffer is full.
StreamSend ==
    /\ producer.pc = "send"
    /\ Len(chan.buf) < chan.cap
    /\ chan' = [chan EXCEPT !.buf =
                   Append(@, IF response.err = "nil"
                             THEN SuccessChunk(response)
                             ELSE ErrorChunk(response))]
    /\ producer' = [producer EXCEPT !.pc = "close"]
    /\ UNCHANGED <<rvars, evars, bvars, svars, tvars, request, payload, response,
                   consumer>>

\* close(ch): the deferred close that ends the Anthropic goroutine, the
\* statement before the return in the other adapters.
StreamClose ==
    /\ producer.pc = "close"
    /\ chan' = CloseChan(chan)
    /\ producer' = [producer EXCEPT !.pc = IF producer.vendor \in SyncVendors
                                          THEN "return" ELSE "done"]
    /\ UNCHANGED <<rvars, evars, bvars, svars, tvars, request, payload, response,
                   consumer>>

\* return ch, nil of the synchronous adapters: the caller starts to drain.
StreamReturn ==
    /\ producer.pc = "return"
    /\ producer' = [producer EXCEPT !.pc = "done"]
    /\ consumer' = [consumer EXCEPT !.pc = "draining", !.ch = "ch"]
    /\ UNCHANGED <<rvars, evars, bvars, svars, tvars, request, payload, response,
                   chan>>

\* One iteration of `for chunk := range ch`: a buffered chunk is received;
\* on an empty closed channel the loop ends; on an empty open channel the
\* receive blocks.
Receive ==
    /\ consumer.pc = "draining"
    /\ IF chan.buf # <<>>
       THEN /\ consumer' = [consumer EXCEPT !.got = Append(@, Head(chan.buf))]
            /\ chan' = [chan EXCEPT !.buf = Tail(@)]
       ELSE /\ chan.closed
            /\ consumer' = [consumer EXCEPT !.pc = "done"]
            /\ UNCHANGED chan
    /\ UNCHANGED <<rvars, evars, bvars, svars, tvars, request, payload, response,
                   producer>>

InitStream == InitProviders(MaxReqStream)

NextStream ==
    \/ \E v \in Vendors : StreamCompleteCall(v)
    \/ \E outcome \in CompleteOutcomes : StreamCompleteDone(outcome)
    \/ StreamSend
    \/ StreamClose
    \/ StreamReturn
    \/ Receive

\* The statements after Complete run to the end of StreamComplete and of its
\* goroutine, and the caller keeps draining; whether and when Complete
\* returns is up to the vendor's server.
SpecStream ==
    /\ InitStream
    /\ [][NextStream]_vars
    /\ WF_vars(StreamSend)
    /\ WF_vars(StreamClose)
    /\ WF_vars(StreamReturn)
    /\ WF_vars(Receive)

-----------------------------------------------------------------------------
(* SplitMessage applied to a text *)

\* parts := SplitMessage(text, maxLen)
Split ==
    /\ ~splitParts.called
    /\ splitParts' = [called |-> TRUE,
                      parts |-> SplitMessage(splitText, splitMax)]
    /\ UNCHANGED <<rvars, evars, bvars, svars, pvars, splitText, splitMax>>

\* Nothing else is used; the text and maxLen >= 1 are the caller's.
InitSplit ==
    /\ providers = NewRouterProviders
    /\ fallback = <<>>
    /\ nreg = 0
    /\ rcall = IdleCall
    /\ rlast = NoCall
    /\ convs = <<>>
    /\ cfg = NewEngine([CompactThreshold |-> 0, CompactTokenThreshold |-> 0,
                        KeepRecent |-> 0])
    /\ procs = {}
    /\ eng = [p \in AllProcs |-> IdleProc]
    /\ inbound = {}
    /\ sums = {}
    /\ faults = {}
    /\ cleared = {}
    /\ budget = 0
    /\ crashed = FALSE
    /\ InitNopLogger
    /\ InitTrackers
    /\ NoProviderCall
    /\ splitText \in Texts(MaxText)
    /\ splitMax \in 1..MaxSplitLen
    /\ splitParts = NotSplit

NextSplit == Split

SpecSplit == InitSplit /\ [][NextSplit]_vars

-----------------------------------------------------------------------------
(* Claims about ai.Router, checked under SpecRouter. *)

\* The fallback-chain entry at position j, as Complete resolves it.
ChainEntry(j) == [name |-> fallback[j], prov |-> providers[fallback[j]]]

\* The positions of the chain whose provider call succeeds in this call.
Succeeding == {j \in 1..Len(fallback) : rcall.outc[j]}

FirstSucceeding == CHOOSE j \in Succeeding : \A m \in Succeeding : j <= m

\* C1: a Complete call returns the response of the first provider, in
\* registration order, whose call succeeds: all providers before it were
\* invoked and failed, the response is that provider's, and no provider
\* registered after it is invoked.
C1_FirstSuccessWins ==
    (rcall.pc = "done" /\ Succeeding # {}) =>
        LET k == FirstSucceeding IN
        /\ rcall.status = "ok"
        /\ Len(rcall.invoked) = k
        /\ \A j \in 1..k : rcall.invoked[j] = ChainEntry(j)
        /\ \A j \in 1..(k - 1) : ~rcall.outc[j]
        /\ rcall.resp = [from |-> providers[fallback[k]], task |-> rcall.task]

\* C1 witness: the first provider failed, the second succeeded and a third
\* registered provider was not invoked.
C1_Witness ==
    /\ rcall.pc = "done"
    /\ rcall.status = "ok"
    /\ Len(rcall.invoked) = 2
    /\ Len(fallback) = 3
    /\ rcall.invoked[1].prov # rcall.invoked[2].prov

\* C2: when every registered provider fails, Complete returns an error and
\* no response; and whatever the outcomes of the calls so far, HasProvider()
\* is true exactly when Register has been called at least once.
C2_AllFailKeepsRegistration ==
    /\ HasProvider(providers) <=> nreg >= 1
    /\ (rcall.pc = "done" /\ nreg >= 1 /\ Succeeding = {}) =>
           /\ rcall.status = "err"
           /\ rcall.resp = NoResp
           /\ Len(rcall.invoked) = Len(fallback)
           /\ HasProvider(providers)

\* C2 witness: a second call has just failed on a chain of two providers.
C2_Witness ==
    /\ rcall.pc = "done"
    /\ rcall.status = "err"
    /\ nreg = 2
    /\ rlast.status = "err"
    /\ HasProvider(providers)

\* C3: with zero registered providers every Complete call returns an error
\* and invokes no provider, whatever the request.
C3_NoProvidersErrors ==
    (rcall.pc = "done" /\ nreg = 0) =>
        /\ rcall.status = "err"
        /\ rcall.resp = NoResp
        /\ rcall.invoked = <<>>

\* C3 witness: a call with task analysis returned on the empty Router.
C3_Witness ==
    /\ rcall.pc = "done"
    /\ nreg = 0
    /\ rcall.task = TaskAnalysis

-----------------------------------------------------------------------------
(* Claims about the Store and the Engine *)

IsPrefix(s, t) == Len(s) <= Len(t) /\ SubSeq(t, 1, Len(s)) = s

\* The log is k user/assistant exchanges, in order.
Exchanges(msgs, k) ==
    /\ Len(msgs) = 2 * k
    /\ \A i \in 1..Len(msgs) :
          msgs[i].role = IF i % 2 = 1 THEN "user" ELSE "assistant"

\* C5: at every moment every user has at most one conversation that is not
\* ended, under every interleaving of ProcessMessage invocations, two
\* concurrent non-command messages of a user without an active conversation
\* included.
C5_AtMostOneActive ==
    \A u \in Users : Cardinality(ActiveOf(convs, u)) <= 1

\* C6: a conversation created for a user who had no active conversation is
\* exactly what the Store reports as active for that user until it is ended;
\* once it is ended, and until another conversation is created for the user,
\* the Store reports no active conversation for the user.
C6_CreatedIsSoleActiveUntilEnded ==
    \A id \in 1..Len(convs) :
        LET c == convs[id] IN
        c.alone =>
            /\ ~c.ended => ActiveOf(convs, c.userID) = {id}
            /\ (c.ended /\ \A j \in (id + 1)..Len(convs) :
                               convs[j].userID # c.userID)
                   => ActiveOf(convs, c.userID) = {}

\* C7: every conversation reached through ProcessMessage calls has
\* 0 <= compactedAt <= len(messages), and a non-empty summary only with
\* compactedAt > 0.
C7_CompactedAtInRange ==
    \A id \in 1..Len(convs) :
        LET c == convs[id] IN
        /\ 0 <= c.compactedAt
        /\ c.compactedAt <= Len(c.messages)
        /\ c.summary # "" => c.compactedAt > 0

\* A finished turn left a summarized conversation with a compaction point
\* inside its log.
C7_Witness ==
    \E id \in 1..Len(convs) :
        /\ convs[id].summary # ""
        /\ convs[id].compactedAt > 0
        /\ convs[id].compactedAt < Len(convs[id].messages)
        /\ \A p \in procs : eng[p].pc = "idle"

\* C8: the message log of every conversation is append-only: each step,
\* compaction and ending included, leaves the earlier log as a prefix of
\* the later one, and no conversation disappears.
C8_LogAppendOnly ==
    [][/\ Len(convs') >= Len(convs)
       /\ \A id \in 1..Len(convs) :
             IsPrefix(convs[id].messages, convs'[id].messages)]_vars

\* A conversation was compacted, continued and ended, and still holds the
\* two exchanges in the order they were made.
C8_Witness ==
    \E id \in 1..Len(convs) :
        /\ convs[id].ended
        /\ convs[id].compactedAt = 2
        /\ Exchanges(convs[id].messages, 2)

\* C9: when the compaction check of a turn is over it has sent no
\* TaskAnalysis request if the messages after compactedAt are within both
\* thresholds, none if len(messages) - keepRecent <= compactedAt, and
\* exactly one in every other case.
C9_OneSummarizationIffNeeded ==
    \A p \in procs :
        eng[p].pc = "main" =>
            LET e == eng[p]
                msgs == convs[e.conv].messages
                unc == SubSeq(msgs, e.seenAt + 1, Len(msgs))
                within == /\ Len(unc) <= cfg.compactThreshold
                          /\ EstimateTokens(unc) <= cfg.compactTokenThreshold
                nothingNew == Len(msgs) - cfg.keepRecent <= e.seenAt
            IN /\ e.seenLen = Len(msgs)
               /\ e.nAnalysis = IF within \/ nothingNew THEN 0 ELSE 1

\* The token threshold alone is exceeded and the check has sent its one
\* request.
C9_Witness ==
    \E p \in procs :
        /\ eng[p].pc = "main"
        /\ eng[p].nAnalysis = 1
        /\ eng[p].seenLen - eng[p].seenAt <= cfg.compactThreshold
        /\ eng[p].tokens > cfg.compactTokenThreshold

\* C10: once the summarization call of a turn has succeeded the stored
\* summary is its response and compactedAt is len(messages at the check) -
\* keepRecent, which leaves keepRecent messages uncompacted; with message
\* threshold 6 and keepRecent 2, after 4 user/assistant exchanges the
\* summary is non-empty and 0 < compactedAt < 8.
C10_SummaryStoredAfterSuccess ==
    \A p \in procs :
        LET e == eng[p]
            c == convs[e.conv]
        IN /\ (e.sumOk /\ e.pc \in {"setlocal", "setlocalAt", "main"}) =>
                 /\ c.summary = e.sumResp
                 /\ c.compactedAt = e.seenLen - cfg.keepRecent
                 /\ Len(c.messages) - c.compactedAt = cfg.keepRecent
           /\ (/\ cfg = NewEngine(LongConfig)
               /\ e.sumOk
               /\ e.pc = "ret"
               /\ Exchanges(c.messages, 4)) =>
                 /\ c.summary # ""
                 /\ 0 < c.compactedAt
                 /\ c.compactedAt < 8

-----------------------------------------------------------------------------
(* Claims about the turns of the Engine *)

\* The messages after index at of a log, as the compaction check counts them.
Uncompacted(msgs, at) == SubSeq(msgs, at + 1, Len(msgs))

WithinThresholds(msgs) ==
    /\ Len(msgs) <= cfg.compactThreshold
    /\ EstimateTokens(msgs) <= cfg.compactTokenThreshold

\* C11: with turns one after another, every message index lies in the
\* summarized slice of at most one successful summarization call, and in a
\* turn on an already compacted conversation the compaction check sends no
\* TaskAnalysis request while the messages after compactedAt are within
\* both thresholds (and never more than one).
C11_NoRedundantSummarization ==
    /\ \A id \in 1..Len(convs) :
          \A k \in 0..(Len(convs[id].messages) - 1) :
             Cardinality({i \in 1..Len(convs[id].ranges) :
                            /\ convs[id].ranges[i][1] <= k
                            /\ k < convs[id].ranges[i][2]}) <= 1
    /\ \A p \in procs :
          /\ eng[p].nAnalysis <= 1
          /\ (/\ eng[p].pc = "main"
              /\ eng[p].seenAt > 0
              /\ WithinThresholds(Uncompacted(convs[eng[p].conv].messages,
                                              eng[p].seenAt)))
                => eng[p].nAnalysis = 0

\* Under the thresholds of TestEngine_Compaction_NoRecompressEveryTurn the
\* turn after a compaction has finished its check without a second call.
C11_Witness ==
    \E p \in procs :
        /\ cfg = NewEngine(LongConfig)
        /\ eng[p].pc = "main"
        /\ eng[p].seenAt > 0
        /\ eng[p].nAnalysis = 0
        /\ Len(convs[eng[p].conv].ranges) = 1

\* The summarization attempt of the turn of goroutine p failed: the Router
\* call returned an error, or SetSummary did.
CompactionFailed(p) ==
    /\ eng[p].nAnalysis = 1
    /\ ~(eng[p].sumOk /\ eng[p].sumStored)

\* The summary exchange of a conversation that has a summary.
SummaryExchange(c) ==
    IF c.summary # ""
    THEN <<AIMessage("user", SummaryPrefix \o c.summary),
           AIMessage("assistant", SummaryAck)>>
    ELSE <<>>

\* The prompt view of a conversation with summary su and compaction point
\* at: the summary exchange and the messages after at when there is a
\* summary, the whole log when there is none.
ViewOf(msgs, su, at) ==
    IF su # ""
    THEN <<AIMessage("user", SummaryPrefix \o su),
           AIMessage("assistant", SummaryAck)>>
         \o AIMessages(Uncompacted(msgs, at))
    ELSE AIMessages(msgs)

\* The attachment that follows the view in the request of a photo turn.
Attachment(m) == IF m.imageDataURL # "" THEN <<ImageMessage(m)>> ELSE <<>>

\* The photo of the turn could not be downloaded: the turn ends after the
\* compaction check and before the TaskTeaching request.
PhotoFailed(m) == m.hasImage /\ m.imageDataURL = ""

\* C12: when the summarization attempt of a turn fails (the Router call or
\* SetSummary returns an error), summary and compactedAt stay as they were
\* before the attempt, the TaskTeaching request of the turn is still sent
\* and carries the previous summary, if any, plus all messages after the
\* old compactedAt, and the turn returns what a turn without a compaction
\* attempt returns, with a nil error.
C12_CompactionFailureIsolated ==
    \A p \in procs :
        LET e == eng[p]
            c == convs[e.conv]
        IN CompactionFailed(p) =>
            /\ e.pc = "main" =>
                  /\ c.summary = e.seenSummary
                  /\ c.compactedAt = e.seenAt
            /\ (e.pc = "addAsst" \/ (e.pc = "ret" /\ e.teach = "err")) =>
                  /\ e.nTeaching = 1
                  /\ e.prompt = <<SystemMessage>> \o SummaryExchange(c)
                        \o AIMessages(Uncompacted(c.messages, c.compactedAt))
                        \o Attachment(e.msg)
            /\ e.pc = "ret" =>
                  /\ e.teach = "none" <=> PhotoFailed(e.msg)
                  /\ e.err = "nil"
                  /\ e.ret = IF PhotoFailed(e.msg) THEN ImageFailed
                             ELSE IF e.teach = "ok"
                                  THEN NormalizeEq(e.resp.content)
                                  ELSE Apology

\* C13: a turn on a conversation whose last summarization call failed
\* sends a TaskAnalysis request again in its compaction check, and when
\* that request succeeds the turn advances compactedAt to its compactUpTo:
\* a failed attempt does not disable compaction.
C13_CompactionRetried ==
    \A p \in procs :
        LET e == eng[p]
            c == convs[e.conv]
        IN (e.pc = "main" /\ e.retry) =>
              /\ e.nAnalysis = 1
              /\ e.sumOk =>
                    /\ c.compactedAt > e.seenAt
                    /\ c.compactedAt = e.seenLen - cfg.keepRecent
                    /\ ~c.pending

\* The retry of a failed summarization has succeeded and moved compactedAt.
C13_Witness ==
    \E p \in procs :
        /\ eng[p].pc = "main"
        /\ eng[p].retry
        /\ eng[p].sumOk
        /\ convs[eng[p].conv].compactedAt > eng[p].seenAt

\* The TaskTeaching request of goroutine p has been sent and the
\* conversation is still as the request saw it.
RequestSent(p) ==
    \/ eng[p].pc = "addAsst"
    \/ eng[p].pc = "ret" /\ eng[p].teach = "err"

C15_CommandsNeverCallRouter ==
    [][\A p \in procs :
          (eng[p].msg.text \in CommandTexts
              \/ eng'[p].msg.text \in CommandTexts) =>
             /\ Len(convs') = Len(convs)
             /\ \A id \in 1..Len(convs) :
                   convs'[id].messages = convs[id].messages
             /\ eng'[p].nTeaching = 0
             /\ eng'[p].nAnalysis = 0
             /\ rvars' = rvars]_vars

\* A command has ended a conversation of one exchange and is about to
\* return.
C15_Witness ==
    \E p \in procs :
        /\ eng[p].pc = "ret"
        /\ eng[p].msg.text \in CommandTexts
        /\ eng[p].conv # 0
        /\ convs[eng[p].conv].ended
        /\ Len(convs[eng[p].conv].messages) = 2

C17_NoActiveAfterCommand ==
    /\ \A u \in Users :
          (u \in cleared /\ InFlight(u) = {}) => ActiveOf(convs, u) = {}
    /\ \A p \in procs :
          LET e == eng[p] IN
          (/\ e.afterClear /\ ~e.overlap
           /\ ~HasSlashPrefix(e.msg.text)
           /\ e.pc \notin {"idle", "create"}) =>
              /\ ActiveOf(convs, e.msg.userID) = {e.conv}
              /\ e.pc = "addUser" => convs[e.conv].messages = <<>>


\* C18: when the TaskTeaching call of a turn fails, ProcessMessage returns
\* the apology with a nil error, no assistant message has been appended
\* for the turn and the turn's user message is still the last message of
\* the log; and whatever path a turn takes, the error it returns is nil.
C18_RouterFailureGivesApology ==
    \A p \in procs :
        LET e == eng[p]
            c == convs[e.conv]
        IN /\ e.pc = "ret" => e.err = "nil"
           /\ (e.pc = "ret" /\ e.teach = "err") =>
                 /\ e.ret = Apology
                 /\ ~e.asstStored
                 /\ c.messages # <<>>
                 /\ Last(c.messages) = UserMessage(UserContent(e.msg))

\* The TaskTeaching call of the second turn of a conversation has failed.
C18_Witness ==
    \E p \in procs :
        /\ eng[p].pc = "ret"
        /\ eng[p].teach = "err"
        /\ eng[p].nTeaching = 1
        /\ Len(convs[eng[p].conv].messages) = 3
        /\ convs[eng[p].conv].messages[2].role = "assistant"

\* C19: when the TaskTeaching call of a turn succeeds, the log holds no
\* assistant message of the turn before ProcessMessage appends it, and
\* when ProcessMessage returns the log ends with the turn's user message
\* followed by one assistant message that carries the response's model
\* name and input/output token counts and whose content is the text
\* returned.
C19_AssistantMessageStored ==
    \A p \in procs :
        LET e == eng[p]
            msgs == convs[e.conv].messages
            n == Len(msgs)
        IN /\ e.pc = "addAsst" =>
                 /\ e.teach = "ok"
                 /\ n >= 1
                 /\ msgs[n] = UserMessage(UserContent(e.msg))
           /\ (e.pc = "ret" /\ e.teach = "ok") =>
                 /\ n >= 2
                 /\ msgs[n - 1] = UserMessage(UserContent(e.msg))
                 /\ msgs[n].role = "assistant"
                 /\ msgs[n].content = e.ret
                 /\ msgs[n].model = e.resp.model
                 /\ msgs[n].inputTokens = e.resp.inputTokens
                 /\ msgs[n].outputTokens = e.resp.outputTokens

\* A turn answered by the second provider of the chain has returned: the
\* stored content is the normalized text, not the raw response.
C19_Witness ==
    \E p \in procs :
        /\ eng[p].pc = "ret"
        /\ eng[p].teach = "ok"
        /\ eng[p].resp.model = "llama3"
        /\ eng[p].resp.outputTokens = 2
        /\ eng[p].ret # eng[p].resp.content
        /\ Last(convs[eng[p].conv].messages).content = "x = 5"

-----------------------------------------------------------------------------
(* Claims about event logging *)

\* The messages stored in all conversations.
RECURSIVE StoredCount(_, _)
StoredCount(cs, k) ==
    IF k = 0 THEN 0 ELSE Len(cs[k].messages) + StoredCount(cs, k - 1)

\* The text a returning turn hands back, from the turn's own message and
\* Router response only.
TurnText(e) ==
    IF HasSlashPrefix(e.msg.text)
    THEN IF CmdOf(e.msg.text) = "/start" THEN "welcome"
         ELSE IF CmdOf(e.msg.text) = "/clear" THEN Cleared
         ELSE "unknown command"
    ELSE IF e.teach = "ok" THEN NormalizeEq(e.resp.content)
    ELSE IF e.teach = "err" THEN Apology
    ELSE ImageFailed

\* C21: event logging is fire-and-forget.  A step of a logging goroutine
\* (LogEvent returning nil or an error) changes nothing of the Engine,
\* the Store and the Router; whatever the logging goroutines have done so
\* far (succeeded, failed or still running), a returning turn hands back
\* the text determined by its message and Router response with a nil
\* error, and the log of its conversation ends with its stored messages;
\* one goroutine exists per emitted event (one session_started per
\* conversation, one message_sent and one ai_response per stored
\* message), LogEvent is called at most once in each and exactly once in
\* each that has ended, and an ended one never runs again.
C21_EventLoggingFireAndForget ==
    [][/\ (events' # events \/ (tasks' # tasks /\ Len(tasks') = Len(tasks)))
             => UNCHANGED <<rvars, convs, eng, cleared, budget, crashed>>
       /\ \A p \in procs :
             LET e == eng'[p] IN
             e.pc = "ret" =>
                /\ e.ret = TurnText(e)
                /\ e.err = "nil"
                /\ e.teach = "ok" =>
                      Last(convs'[e.conv].messages) =
                         AssistantMessage(e.ret, e.resp)
                /\ e.teach = "err" =>
                      Last(convs'[e.conv].messages) =
                         UserMessage(UserContent(e.msg))
       /\ Len(tasks') = Len(convs') + StoredCount(convs', Len(convs'))
       /\ Len(tasks') >= Len(tasks)
       /\ \A i \in 1..Len(tasks) :
             /\ tasks'[i].event = tasks[i].event
             /\ tasks[i].state # "running" => tasks'[i] = tasks[i]
       /\ \A i \in 1..Len(tasks') :
             /\ tasks'[i].calls <= 1
             /\ tasks'[i].state \in {"ok", "failed"} => tasks'[i].calls = 1
       /\ Len(events') =
             Cardinality({i \in 1..Len(tasks') : tasks'[i].state = "ok"})
      ]_vars

\* A turn has returned the model's text while, of its three events, the
\* first was logged, the second failed and the third is still running.
C21_Witness ==
    /\ \A p \in procs : eng[p].pc = "idle"
    /\ Len(tasks) = 3
    /\ tasks[1].state = "ok"
    /\ tasks[2].state = "failed"
    /\ tasks[3].state = "running"
    /\ tasks[3].event.eventType = "ai_response"
    /\ Len(convs[1].messages) = 2

-----------------------------------------------------------------------------
(* Claims about the Router calls of a turn *)

\* C22: one ProcessMessage invocation issues at most one TaskAnalysis and
\* at most one TaskTeaching request; the TaskTeaching request is issued
\* when maybeCompact has returned (so after the TaskAnalysis call, if one
\* was made, has returned), and no TaskAnalysis request is issued once
\* the TaskTeaching request has been sent.
C22_RouterCallsSequential ==
    [][\A p \in procs :
          /\ eng'[p].nAnalysis <= 1
          /\ eng'[p].nTeaching <= 1
          /\ eng'[p].nTeaching > eng[p].nTeaching =>
                /\ eng[p].pc = "main"
                /\ eng'[p].nAnalysis = eng[p].nAnalysis
          /\ eng'[p].nAnalysis > eng[p].nAnalysis =>
                /\ eng[p].pc = "summarize"
                /\ eng[p].nTeaching = 0
                /\ eng'[p].nTeaching = 0]_vars

\* A turn has sent its TaskTeaching request after its TaskAnalysis call
\* had failed.
C22_Witness ==
    \E p \in procs :
        /\ eng[p].pc = "ret"
        /\ eng[p].nAnalysis = 1
        /\ eng[p].nTeaching = 1
        /\ ~eng[p].sumOk
        /\ eng[p].teach = "ok"

-----------------------------------------------------------------------------
(* Claims about InMemoryBudget *)

\* The key of the last call.
LastKey == budgetKey(blast.tenantID, blast.userID)

\* C23: Check returns true, with a nil error, exactly when no budget is
\* configured for the key or the usage stored for the key is below the
\* budget; used = budget is exhausted.
C23_CheckIffUnlimitedOrBelow ==
    blast.op = "Check" =>
        /\ blast.err = "nil"
        /\ blast.ok <=>
              \/ LastKey \notin DOMAIN budgets
              \/ /\ LastKey \in DOMAIN budgets
                 /\ LastKey \in DOMAIN usage
                 /\ usage[LastKey] < budgets[LastKey]
              \/ /\ LastKey \in DOMAIN budgets
                 /\ LastKey \notin DOMAIN usage
                 /\ 0 < budgets[LastKey]

\* Check has returned false for a key whose usage equals its budget.
C23_Witness ==
    /\ blast.op = "Check"
    /\ ~blast.ok
    /\ LastKey \in DOMAIN usage
    /\ usage[LastKey] = 2
    /\ budgets[LastKey] = 2

\* C24: for every key the stored usage, and the used value Usage
\* returns, is the sum of the values Record accepted for the key.
C24_RecordAdditive ==
    /\ \A key \in DOMAIN recorded : MapGet(usage, key) = recorded[key]
    /\ blast.op = "Usage" => blast.used = MapGet(recorded, LastKey)

\* C25: a Record call with a negative value returns an error and leaves
\* the usage and the budget of every key as they were.
C25_NegativeRecordRejected ==
    [][(ncalls' # ncalls /\ blast'.op = "Record" /\ blast'.tokens < 0) =>
          /\ blast'.err # "nil"
          /\ usage' = usage
          /\ budgets' = budgets]_vars

\* A negative Record has been rejected on a tracker that holds a usage
\* and a budget.
C25_Witness ==
    /\ blast.op = "Record"
    /\ blast.tokens < 0
    /\ blast.err # "nil"
    /\ \E key \in DOMAIN usage : usage[key] = 1
    /\ DOMAIN budgets # {}

\* C26: no call makes the used value of a key smaller than it was.
C26_UsageMonotone ==
    [][\A tenantID \in TenantIDs, userID \in UserIDs :
          MapGet(usage', budgetKey(tenantID, userID)) >=
             MapGet(usage, budgetKey(tenantID, userID))]_vars

\* C27: a Record or SetBudget call on one (tenantID, userID) pair leaves
\* the used value, the budget and the Check result of every other pair as
\* they were.
C27_PairsIsolated ==
    [][(ncalls' # ncalls /\ blast'.op \in {"Record", "SetBudget"}) =>
          \A tenantID \in TenantIDs, userID \in UserIDs :
             <<tenantID, userID>> # <<blast'.tenantID, blast'.userID>> =>
                LET key == budgetKey(tenantID, userID) IN
                /\ MapGet(usage', key) = MapGet(usage, key)
                /\ HasKey(budgets', key) = HasKey(budgets, key)
                /\ MapGet(budgets', key) = MapGet(budgets, key)
                /\ CheckResult(budgets', usage', key) =
                      CheckResult(budgets, usage, key)]_vars

-----------------------------------------------------------------------------
(* Claims about the Store called directly *)

\* C28: GetConversation, AddMessage, SetSummary and EndConversation with
\* an id that was never created return the not-found error and leave
\* every stored conversation as it was; GetActiveConversation for a user
\* without any conversation reports not-found (and changes nothing).
C28_MissingTargetNotFound ==
    [][nscalls' # nscalls =>
          /\ (/\ slast'.op \in {"GetConversation", "AddMessage",
                               "SetSummary", "EndConversation"}
              /\ slast'.id \notin 1..Len(convs)) =>
                 /\ slast'.err = NotFound
                 /\ convs' = convs
          /\ (/\ slast'.op = "GetActiveConversation"
              /\ \A id \in 1..Len(convs) : convs[id].userID # slast'.userID)
                 => /\ ~slast'.found
                    /\ convs' = convs]_vars

\* AddMessage with an unknown id has failed on a Store that holds a
\* conversation with a message.
C28_Witness ==
    /\ slast.op = "AddMessage"
    /\ slast.err = NotFound
    /\ Len(convs) = 1
    /\ Len(convs[1].messages) = 1

-----------------------------------------------------------------------------
(* Claims about the vendor adapters, checked under SpecAdapters. *)

\* The positions of the request that hold a non-system message, and the
\* k-th of them.
NonSystemAt(msgs) == {i \in 1..Len(msgs) : msgs[i].role # "system"}

RECURSIVE NthOf(_, _)
NthOf(S, k) ==
    LET least == CHOOSE i \in S : \A j \in S : i <= j IN
    IF k = 1 THEN least ELSE NthOf(S \ {least}, k - 1)

\* The system messages are absent from list l and the non-system messages
\* are all there in their original order, with role and content given by
\* Entry.
KeepsNonSystemInOrder(l, msgs, Entry(_)) ==
    /\ Len(l) = Cardinality(NonSystemAt(msgs))
    /\ \A k \in 1..Len(l) : l[k] = Entry(msgs[NthOf(NonSystemAt(msgs), k)])

PlainEntry(m) == [role |-> m.role, content |-> m.content]

GoogleEntry(m) ==
    [role |-> IF m.role = "assistant" THEN "model" ELSE m.role,
     parts |-> <<[text |-> m.content]>>]

\* The OpenAI-compatible body has every message inline, system messages
\* included, at its own position.
OpenAIShape(body, msgs) ==
    /\ DOMAIN body = {"messages"}
    /\ Len(body.messages) = Len(msgs)
    /\ \A i \in 1..Len(msgs) : body.messages[i] = PlainEntry(msgs[i])

\* The Anthropic body has no system message in its list, and the content
\* of every system message of the request is what the system field holds
\* (an absent field holds no content).
AnthropicShape(body, msgs) ==
    /\ KeepsNonSystemInOrder(body.messages, msgs, PlainEntry)
    /\ \A i \in 1..Len(msgs) :
          msgs[i].role = "system" =>
              msgs[i].content =
                  (IF "system" \in DOMAIN body THEN body.system ELSE "")

\* The Google body has the non-system messages only, assistant as model.
GoogleShape(body, msgs) ==
    /\ DOMAIN body = {"contents"}
    /\ KeepsNonSystemInOrder(body.contents, msgs, GoogleEntry)

\* C29: the body an adapter builds from a neutral message list keeps the
\* non-system messages in their original order; the OpenAI-compatible
\* adapters keep the system messages inline, the Anthropic adapter removes
\* them from the list and puts the system content into the top-level system
\* field, the Google adapter drops them and maps assistant to model.
C29_VendorPayloadMapping ==
    payload.vendor # "none" =>
        CASE payload.vendor = "anthropic" ->
                 AnthropicShape(payload.body, request)
          [] payload.vendor = "google" -> GoogleShape(payload.body, request)
          [] OTHER -> OpenAIShape(payload.body, request)

\* The request has at most one system message, as the prompt the Engine
\* assembles has.
OneSystemMessage ==
    Cardinality({i \in 1..Len(request) : request[i].role = "system"}) <= 1

\* The mapping of C29 for requests with at most one system message.
C29_SingleSystemMapping == OneSystemMessage => C29_VendorPayloadMapping

-----------------------------------------------------------------------------
(* Claims about StreamComplete, checked under SpecStream. *)

\* The underlying Complete of the StreamComplete call has succeeded.
CompleteSucceeded == producer.vendor # "none" /\ response.err = "nil"

\* The chunks the channel has delivered and the ones it still holds are,
\* together, at most the one chunk with the full content and Done = true;
\* once the producer is through that chunk has been sent and the channel
\* is closed; the caller that finished draining received exactly it.
OneFullChunk ==
    CompleteSucceeded =>
        /\ consumer.got \o chan.buf \in {<<>>, <<SuccessChunk(response)>>}
        /\ producer.pc \in {"close", "return", "done"} =>
               consumer.got \o chan.buf = <<SuccessChunk(response)>>
        /\ producer.pc \in {"return", "done"} => chan.closed
        /\ consumer.pc # "idle" /\ consumer.pc # "calling" => consumer.ch = "ch"
        /\ consumer.pc = "done" =>
               /\ consumer.got = <<SuccessChunk(response)>>
               /\ chan.closed

\* C30: when the underlying Complete succeeds, the channel StreamComplete
\* returns delivers exactly one chunk, holding the full content with
\* Done = true, and is then closed, and the caller that drains the channel
\* comes to the end of its loop.
C30_StreamOneChunkThenClosed ==
    /\ []OneFullChunk
    /\ CompleteSucceeded ~> consumer.pc = "done"

\* A caller has drained the stream of a succeeded Complete to its end.
C30_Witness ==
    /\ CompleteSucceeded
    /\ consumer.pc = "done"
    /\ consumer.got = <<SuccessChunk(response)>>
    /\ response.content = "full answer"

-----------------------------------------------------------------------------
(* Claims about SplitMessage, checked under SpecSplit. *)

\* C31: the parts SplitMessage returns each have length at most maxLen,
\* for every text and every maxLen >= 1; the empty text yields no parts and
\* a text no longer than maxLen yields exactly one part, the text itself.
C31_SplitPartsWithinMax ==
    splitParts.called =>
        /\ \A k \in 1..Len(splitParts.parts) :
              Len(splitParts.parts[k]) <= splitMax
        /\ splitText = <<>> => splitParts.parts = <<>>
        /\ (splitText # <<>> /\ Len(splitText) <= splitMax) =>
               splitParts.parts = <<splitText>>

\* A text longer than maxLen was split behind a newline that ends the
\* window, into more than two parts.
C31_Witness ==
    /\ splitParts.called
    /\ Len(splitText) > splitMax
    /\ Len(splitParts.parts) > 2
    /\ splitText[splitMax] = "\n"
    /\ Len(splitParts.parts[1]) = splitMax

-----------------------------------------------------------------------------
(* Claims about the order of the messages of a log, checked under SpecConc
   and SpecSeq. *)

\* Invocation x had returned before invocation y began: x began earlier and
\* was not in flight when y began.
ReturnedBefore(x, y) == x.turn > y.turn /\ x.turn \notin y.during

\* C32: the appends to a conversation are applied in the order the Engine
\* issues them.  Every message of the log is the one an invocation
\* appended; the user message of an invocation precedes its assistant
\* message; when an invocation had returned before another began, each of
\* its messages precedes each message of the other; and no append is lost:
\* the log holds one message for each AddMessage call that returned nil,
\* and the messages an invocation in flight has stored are in the log.
C32_AppendsInIssueOrder ==
    /\ \A id \in 1..Len(convs) :
          LET c == convs[id] IN
          /\ Len(c.by) = Len(c.messages)
          /\ \A i \in 1..Len(c.by) : c.by[i].role = c.messages[i].role
          /\ \A i, j \in 1..Len(c.by) :
                /\ (i < j) => ~ReturnedBefore(c.by[j], c.by[i])
                /\ (c.by[i].turn = c.by[j].turn /\ c.by[i].role = "user"
                       /\ c.by[j].role = "assistant") => i < j
                /\ (c.by[i].turn = c.by[j].turn /\ c.by[i].role = c.by[j].role)
                       => i = j
    /\ \A p \in procs :
          /\ eng[p].userStored =>
                \E i \in 1..Len(convs[eng[p].conv].by) :
                    /\ convs[eng[p].conv].by[i].turn = eng[p].turn
                    /\ convs[eng[p].conv].messages[i] =
                          UserMessage(UserContent(eng[p].msg))
          /\ eng[p].asstStored =>
                \E i \in 1..Len(convs[eng[p].conv].by) :
                    /\ convs[eng[p].conv].by[i].turn = eng[p].turn
                    /\ convs[eng[p].conv].messages[i].role = "assistant"

\* Two invocations of one user ran concurrently: both stored their user
\* message before either stored its assistant message, and the log holds
\* the four messages.
C32_Witness ==
    \E id \in 1..Len(convs) :
        LET c == convs[id] IN
        /\ Len(c.by) = 4
        /\ c.by[1].role = "user" /\ c.by[2].role = "user"
        /\ c.by[1].turn # c.by[2].turn
        /\ c.by[3].turn = c.by[2].turn
        /\ c.by[4].turn = c.by[1].turn

-----------------------------------------------------------------------------
(* Claims about Register and Complete running concurrently, checked under
   SpecRouter. *)

\* The names of the providers a call has attempted so far.
InvokedNames(c) == [k \in 1..Len(c.invoked) |-> c.invoked[k].name]

\* C33: the fallback list is not mutated concurrently with routing.  No step
\* taken while a Complete call is in flight changes the fallback list or
\* the provider map, so a Register takes effect before the call starts or
\* after it returns; and the attempts of the call follow, from the first to
\* the last, the one fallback sequence the call started with.
C33_FallbackFixedDuringComplete ==
    [][/\ rcall.pc # "idle" => UNCHANGED <<fallback, providers>>
       /\ rcall'.pc # "idle" =>
             /\ rcall'.rng = fallback'
             /\ IsPrefix(InvokedNames(rcall'), fallback')
             /\ \A k \in 1..Len(rcall'.invoked) :
                   rcall'.invoked[k].prov = providers'[fallback'[k]]
       /\ (rcall.pc = "done" /\ rcall'.pc = "idle") =>
             /\ IsPrefix(InvokedNames(rlast'), fallback')
             /\ fallback' = rcall.rng]_vars

\* A Complete call on a chain of two registrations is between its first and
\* its second attempt while a further Register call can arrive.
C33_Witness ==
    /\ Len(fallback) = 2
    /\ nreg = 2
    /\ nreg < MaxReg
    /\ rcall.pc = "loop"
    /\ Len(rcall.invoked) = 1

\* C37: within one Complete call no registered name is attempted more than
\* once, so every provider of the map is invoked at most once and the call
\* returns after at most one attempt per registered name, for every sequence
\* of Register calls, sequences that register a name more than once
\* included.
C37_OneAttemptPerName ==
    \A c \in {rcall, rlast} :
        \A j, k \in 1..Len(c.invoked) :
            j # k => c.invoked[j].name # c.invoked[k].name

\* The number of attempts of a call never exceeds the number of Register
\* calls made before it.
C37_AttemptsWithinRegistrations ==
    \A c \in {rcall, rlast} : Len(c.invoked) <= Len(fallback)

-----------------------------------------------------------------------------
(* Claims about compaction under concurrent turns, checked under Spec. *)

\* C34: in every reachable state the stored pair (summary, compactedAt) is
\* consistent: the summary was produced from exactly the messages below
\* compactedAt, directly or through the previous summary it incorporated,
\* so that summary + messages[compactedAt:] omits no message of the log.
C34_SummaryCoversCompacted ==
    \A id \in 1..Len(convs) :
        convs[id].covered = 1..convs[id].compactedAt

\* The part of C34 about the prompt view alone: no message below
\* compactedAt is missing from what the summary was produced from.
C34_ViewOmitsNothing ==
    \A id \in 1..Len(convs) :
        (1..convs[id].compactedAt) \subseteq convs[id].covered

\* The step is a SetSummary call of the Store issued by invocation p.
IsSetSummary(p) == eng[p].pc = "setsum" /\ eng'[p].pc = "setlocal"

\* C35: compactedAt of a conversation never decreases, and every SetSummary
\* the Engine issues stores a compactedAt that is at least the stored one.
C35_CompactedAtNeverDecreases ==
    [][/\ \A id \in 1..Len(convs) :
             convs'[id].compactedAt >= convs[id].compactedAt
       /\ \A p \in procs :
             IsSetSummary(p) =>
                 eng[p].compactUpTo >= convs[eng[p].conv].compactedAt]_vars

\* The SetSummary part of C35 alone.
C35_SetSummaryAdvances ==
    [][\A p \in procs :
          IsSetSummary(p) =>
              eng[p].compactUpTo >= convs[eng[p].conv].compactedAt]_vars

\* C36: an ended conversation is never mutated: under every interleaving of
\* a non-command turn of a user with a /start or /clear of that user, no
\* step appends a message to, or sets the summary or compactedAt of, a
\* conversation that is ended.
C36_EndedNeverMutated ==
    [][\A id \in 1..Len(convs) :
           convs[id].ended =>
               /\ convs'[id].messages = convs[id].messages
               /\ convs'[id].summary = convs[id].summary
               /\ convs'[id].compactedAt = convs[id].compactedAt]_vars

-----------------------------------------------------------------------------
(* Claims about the size and the content of the prompt, checked under
   SpecSeq, SpecFaulty and SpecConc. *)

MaxOf(a, b) == IF a >= b THEN a ELSE b

\* The messages of the conversation log that a TaskTeaching request carries:
\* the request without the system message, the summary exchange and the
\* image message.
LogMessagesSent(p) ==
    Len(eng[p].prompt) - 1 - Len(SummaryExchange(convs[eng[p].conv]))
        - Len(Attachment(eng[p].msg))

\* The TaskTeaching request of the turn of goroutine p has been sent.
TeachingSent(p) ==
    /\ eng[p].nTeaching = 1
    /\ eng[p].pc = "addAsst" \/ (eng[p].pc = "ret" /\ eng[p].teach = "err")

\* After the compaction check of a turn whose summarization attempt, if
\* any, succeeded, len(messages) - compactedAt is at most
\* max(messageThreshold, keepRecent).
C38_WindowBounded ==
    \A p \in procs :
        LET c == convs[eng[p].conv] IN
        (eng[p].pc = "main" /\ ~CompactionFailed(p)) =>
            Len(c.messages) - c.compactedAt
                <= MaxOf(cfg.compactThreshold, cfg.keepRecent)

\* C38: the uncompacted window is bounded.  With turns one after another and
\* every attempted summarization succeeding, after the compaction check of
\* each turn len(messages) - compactedAt <= max(messageThreshold,
\* keepRecent), and the TaskTeaching request of the turn carries at most
\* that many messages of the conversation log.
C38_UncompactedWindowBounded ==
    /\ C38_WindowBounded
    /\ \A p \in procs :
          (TeachingSent(p) /\ ~CompactionFailed(p)) =>
              LogMessagesSent(p)
                  <= MaxOf(cfg.compactThreshold, cfg.keepRecent)

\* C39: whenever compactedAt > 0 for a conversation, the TaskTeaching
\* request built for it is the system message, the summary exchange and only
\* the messages from index compactedAt on (then the image message, if any),
\* for every summarization response the Router returned successfully, the
\* empty string included.
C39_PromptFromCompactedAt ==
    \A p \in procs :
        LET e == eng[p]
            c == convs[e.conv]
        IN (TeachingSent(p) /\ c.compactedAt > 0) =>
              e.prompt = <<SystemMessage,
                           AIMessage("user", SummaryPrefix \o c.summary),
                           AIMessage("assistant", SummaryAck)>>
                         \o AIMessages(Uncompacted(c.messages, c.compactedAt))
                         \o Attachment(e.msg)

\* The same for conversations whose stored summary is not empty.
C39_PromptFromCompactedAtWithSummary ==
    \A p \in procs :
        LET e == eng[p]
            c == convs[e.conv]
        IN (TeachingSent(p) /\ c.compactedAt > 0 /\ c.summary # "") =>
              e.prompt = <<SystemMessage,
                           AIMessage("user", SummaryPrefix \o c.summary),
                           AIMessage("assistant", SummaryAck)>>
                         \o AIMessages(Uncompacted(c.messages, c.compactedAt))
                         \o Attachment(e.msg)

\* C40: for every non-command turn without an image that reaches the main
\* Router call, the last message of the TaskTeaching request is a user
\* message whose content is the content built for the inbound message of
\* this turn (reply-to marker plus text), also when AddMessage for the user
\* message returned an error and when another turn of the same user
\* interleaves.
C40_LastIsThisTurnsUserMessage ==
    \A p \in procs :
        (TeachingSent(p) /\ ~eng[p].msg.hasImage) =>
            /\ eng[p].prompt # <<>>
            /\ Last(eng[p].prompt)
                   = AIMessage("user", UserContent(eng[p].msg))

\* The same for the turns whose user message was stored.
C40_LastIsStoredUserMessage ==
    \A p \in procs :
        (TeachingSent(p) /\ ~eng[p].msg.hasImage /\ eng[p].userStored) =>
            /\ eng[p].prompt # <<>>
            /\ Last(eng[p].prompt)
                   = AIMessage("user", UserContent(eng[p].msg))

====
